---- MODULE Spec2Model ----
(***************************************************************************)
(* Model of the sub-step canvas editor of TaskDetailModal                  *)
(* (src/services/geminiService.ts, lines 560-1257): the editable task with *)
(* its sub-step graph, the local undo/redo history, the connection-drawing *)
(* session, card dragging and the automatic layout.                        *)
(*                                                                         *)
(* A sub-step's nextSubStepIds is an optional array in the source; every   *)
(* read goes through `|| []` or `?.`, so an absent array is modelled as    *)
(* the empty sequence.                                                     *)
(***************************************************************************)
EXTENDS Integers, Sequences, FiniteSets, TLC

\* ---------------------------------------------------------------- bounds
MaxHistory == 2
MaxMoves == 2
MaxLoaded == 5
MaxAdded == 3

\* ------------------------------------------------------- program constants
cardWidth == 192
cardHeight == 76
hSpacing == 60
vSpacing == 20
layoutMargin == 10
gridColumns == 4
gridStepX == 210
gridStepY == 90
canvasPadding == 20
minCardHeight == 60

NOT_STARTED == "NotStarted"
IN_PROGRESS == "InProgress"
COMPLETED == "Completed"
SubStepStatus == {NOT_STARTED, IN_PROGRESS, COMPLETED}

NewStepText == "new"
\* p.title of the index-th accepted proposal
ProposalTitles == <<"proposal 1", "proposal 2", "proposal 3">>
ProposalText(index) == ProposalTitles[index]
FieldUpdates ==
  {[field |-> "text", value |-> "edited"],
   [field |-> "status", value |-> COMPLETED]}

\* ------------------------------------------------------------ input sets
Uids == {1, 2, 3}
NoId == 0
CanvasWidths == {250}
PointerCoords == {[x |-> 900, y |-> 700]}
DragOffsets == {[x |-> 0, y |-> 0]}
ContainerSizes == {[w |-> 600, h |-> 400]}
CardSizes == {[w |-> cardWidth, h |-> cardHeight]}
ProposalCounts == {2}
Decks == {"deck"}

VARIABLES
  editableTask,          \* useState(task): [subSteps: sequence of sub-steps]
  localHistory,          \* undo stack, most recent last
  localRedoHistory,      \* redo stack, most recent first
  selectedSubStepId,     \* id or NoId
  connectingState,       \* [active, fromId, fromPos]
  mousePos,              \* live pointer coordinate of the preview connector
  draggedSubStepIdRef,   \* id or NoId
  subStepDragOffsetRef,  \* {x, y}
  deckRequest,           \* isLoadingDeck, and the task the pending call holds
  last                   \* the command that produced this state

vars == <<editableTask, localHistory, localRedoHistory, selectedSubStepId,
          connectingState, mousePos, draggedSubStepIdRef,
          subStepDragOffsetRef, deckRequest, last>>

\* ------------------------------------------------------------- sequences
Range(s) == {s[i] : i \in 1..Len(s)}

Contains(s, e) == \E i \in 1..Len(s) : s[i] = e

\* Array.prototype.filter(id => id !== e)
Without(s, e) == SelectSeq(s, LAMBDA v : v # e)

\* Array.from(new Set(s)): keeps the first occurrence of every element
RECURSIVE ArrayFromSet(_)
ArrayFromSet(s) ==
  IF s = <<>> THEN <<>>
  ELSE LET init == ArrayFromSet(SubSeq(s, 1, Len(s) - 1))
           e == s[Len(s)]
       IN IF Contains(init, e) THEN init ELSE Append(init, e)

Max(a, b) == IF a >= b THEN a ELSE b
Min(a, b) == IF a <= b THEN a ELSE b

\* ------------------------------------------------------------- the graph
SubStepsOf(task) == task.subSteps
NodeIds(task) == {SubStepsOf(task)[i].id : i \in 1..Len(SubStepsOf(task))}
NodeOf(task, id) ==
  LET ss == SubStepsOf(task)
  IN ss[CHOOSE i \in 1..Len(ss) : ss[i].id = id]

\* position of slot i of the default 4-column grid
\* variant of the default position that never starts a new grid row
DefaultPosition_OneRow(i) ==
  [x |-> layoutMargin + i * gridStepX, y |-> layoutMargin]

DefaultPosition(i) ==
  [x |-> layoutMargin + (i % gridColumns) * gridStepX,
   y |-> (i \div gridColumns) * gridStepY + layoutMargin]

NewSubStep(id, text, i) ==
  [id |-> id, text |-> text, status |-> NOT_STARTED,
   position |-> DefaultPosition(i), nextSubStepIds |-> <<>>]

\* updateExtended(d => ({subSteps: ...})): replaces the sub-step list
WithSubSteps(task, ss) == [task EXCEPT !.subSteps = ss]

\* handleAddSubStep's updater
AddSubStepTo(task, id) ==
  WithSubSteps(task, Append(SubStepsOf(task),
                            NewSubStep(id, NewStepText, Len(SubStepsOf(task)))))

\* variant of the merge that resets fields the update does not name
MergeFields_NoSpread(ss, updates) ==
  IF updates.field = "text"
  THEN [ss EXCEPT !.text = updates.value, !.status = NOT_STARTED]
  ELSE IF updates.field = "status"
  THEN [ss EXCEPT !.status = updates.value, !.nextSubStepIds = <<>>]
  ELSE IF updates.field = "position"
  THEN [ss EXCEPT !.position = updates.value]
  ELSE IF updates.field = "connect"
  THEN [ss EXCEPT !.nextSubStepIds =
          ArrayFromSet(@ \o <<updates.value>>)]
  ELSE [ss EXCEPT !.nextSubStepIds = Without(@, updates.value)]

\* {...ss, ...(typeof updates === 'function' ? updates(ss) : updates)}: updates
\* is a partial sub-step with one field ("text", "status", "position") or one
\* of the two updater functions of the connection handlers ("connect":
\* handleEndConnection's, "disconnect": handleDeleteConnection's)
MergeFields(ss, updates) ==
  IF updates.field = "text" THEN [ss EXCEPT !.text = updates.value]
  ELSE IF updates.field = "status" THEN [ss EXCEPT !.status = updates.value]
  ELSE IF updates.field = "position"
  THEN [ss EXCEPT !.position = updates.value]
  ELSE IF updates.field = "connect"
  THEN [ss EXCEPT !.nextSubStepIds = ArrayFromSet(Append(@, updates.value))]
  ELSE [ss EXCEPT !.nextSubStepIds = Without(@, updates.value)]

\* variant of the updater that adds a sub-step when no id matches
UpdateSubStepIn_Upsert(task, subStepId, updates) ==
  LET subSteps == SubStepsOf(task)
      merged == [i \in 1..Len(subSteps) |->
                   IF subSteps[i].id = subStepId
                   THEN MergeFields(subSteps[i], updates) ELSE subSteps[i]]
  IN IF subStepId \in NodeIds(task) THEN WithSubSteps(task, merged)
     ELSE WithSubSteps(task,
            Append(subSteps, MergeFields(
              NewSubStep(subStepId, NewStepText, Len(subSteps)), updates)))

\* handleUpdateSubStep's updater: map over the list, merge into the match
UpdateSubStepIn(task, subStepId, updates) ==
  LET subSteps == SubStepsOf(task)
  IN WithSubSteps(task,
       [i \in 1..Len(subSteps) |->
          IF subSteps[i].id = subStepId
          THEN MergeFields(subSteps[i], updates) ELSE subSteps[i]])

\* variants of the updater with a slip in the purge of idToRemove
RemoveSubStepFrom_NoStrip(task, idToRemove) ==
  WithSubSteps(task, SelectSeq(SubStepsOf(task), LAMBDA ss : ss.id # idToRemove))

RemoveSubStepFrom_ClearLists(task, idToRemove) ==
  LET kept == SelectSeq(SubStepsOf(task), LAMBDA ss : ss.id # idToRemove)
  IN WithSubSteps(task,
       [i \in 1..Len(kept) |-> [kept[i] EXCEPT !.nextSubStepIds = <<>>]])

RemoveSubStepFrom_StripFirstOnly(task, idToRemove) ==
  LET kept == SelectSeq(SubStepsOf(task), LAMBDA ss : ss.id # idToRemove)
      strip(ss) == IF kept # <<>> /\ ss.id = kept[1].id
                   THEN [ss EXCEPT !.nextSubStepIds = Without(@, idToRemove)]
                   ELSE ss
  IN WithSubSteps(task, [i \in 1..Len(kept) |-> strip(kept[i])])

\* handleRemoveSubStep's updater: filter out the node, then strip its id
RemoveSubStepFrom(task, idToRemove) ==
  LET kept == SelectSeq(SubStepsOf(task), LAMBDA ss : ss.id # idToRemove)
      strip(ss) == [ss EXCEPT !.nextSubStepIds = Without(@, idToRemove)]
  IN WithSubSteps(task, [i \in 1..Len(kept) |-> strip(kept[i])])

\* variant of the updater that appends without collapsing duplicates
ConnectIn_PlainAppend(task, fromId, targetId) ==
  LET subSteps == SubStepsOf(task)
  IN WithSubSteps(task,
       [i \in 1..Len(subSteps) |->
          IF subSteps[i].id = fromId
          THEN [subSteps[i] EXCEPT !.nextSubStepIds = Append(@, targetId)]
          ELSE subSteps[i]])

\* variant of the updater that also records the edge on the target
ConnectIn_Symmetric(task, fromId, targetId) ==
  UpdateSubStepIn(
    UpdateSubStepIn(task, fromId, [field |-> "connect", value |-> targetId]),
    targetId, [field |-> "connect", value |-> fromId])

\* variant of the updater that records the edge on the target instead
ConnectIn_Reversed(task, fromId, targetId) ==
  UpdateSubStepIn(task, targetId, [field |-> "connect", value |-> fromId])

\* handleEndConnection's updater
ConnectIn(task, fromId, targetId) ==
  UpdateSubStepIn(task, fromId, [field |-> "connect", value |-> targetId])

\* variant of the updater that drops the target from every list
DisconnectIn_Everywhere(task, sourceId, targetId) ==
  WithSubSteps(task,
    [i \in 1..Len(SubStepsOf(task)) |->
       [SubStepsOf(task)[i] EXCEPT !.nextSubStepIds = Without(@, targetId)]])

\* handleDeleteConnection's updater
DisconnectIn(task, sourceId, targetId) ==
  UpdateSubStepIn(task, sourceId, [field |-> "disconnect", value |-> targetId])

\* ------------------------------------------------------------ auto layout
\* adj.get(ss.id): the targets of ss that are ids of the list, in list order
AdjOf(subSteps, ss) ==
  LET ids == {subSteps[i].id : i \in 1..Len(subSteps)}
  IN SelectSeq(ss.nextSubStepIds, LAMBDA nextId : nextId \in ids)

Occurrences(s, e) == Cardinality({i \in 1..Len(s) : s[i] = e})

RECURSIVE SumSeq(_)
SumSeq(s) == IF s = <<>> THEN 0 ELSE Head(s) + SumSeq(Tail(s))

\* inDegree after the two forEach passes of the topological sort
InitialInDegree(subSteps) ==
  [id \in {subSteps[i].id : i \in 1..Len(subSteps)} |->
     SumSeq([i \in 1..Len(subSteps) |->
               Occurrences(AdjOf(subSteps, subSteps[i]), id)])]

SubStepById(subSteps, id) ==
  subSteps[CHOOSE i \in 1..Len(subSteps) : subSteps[i].id = id]

\* variant that queues a successor at every decrement
RECURSIVE RelaxSuccessors_PushEarly(_, _, _)
RelaxSuccessors_PushEarly(vs, inDegree, queue) ==
  IF vs = <<>> THEN [inDegree |-> inDegree, queue |-> queue]
  ELSE LET v == Head(vs)
           d == inDegree[v] - 1
       IN RelaxSuccessors_PushEarly(Tail(vs), [inDegree EXCEPT ![v] = d],
                                    Append(queue, v))

\* (adj.get(u) || []).forEach(v => { inDegree--; if (inDegree === 0) push })
RECURSIVE RelaxSuccessors(_, _, _)
RelaxSuccessors(vs, inDegree, queue) ==
  IF vs = <<>> THEN [inDegree |-> inDegree, queue |-> queue]
  ELSE LET v == Head(vs)
           d == inDegree[v] - 1
       IN RelaxSuccessors(Tail(vs), [inDegree EXCEPT ![v] = d],
                          IF d = 0 THEN Append(queue, v) ELSE queue)

\* the for loop over levelSize entries of the queue
RECURSIVE PeelLevel(_, _, _, _, _)
PeelLevel(subSteps, levelSize, inDegree, queue, currentLevel) ==
  IF levelSize = 0
  THEN [inDegree |-> inDegree, queue |-> queue, level |-> currentLevel]
  ELSE LET u == Head(queue)
           r == RelaxSuccessors(AdjOf(subSteps, SubStepById(subSteps, u)),
                                inDegree, Tail(queue))
       IN PeelLevel(subSteps, levelSize - 1, r.inDegree, r.queue,
                    Append(currentLevel, u))

\* while (queue.length > 0) { ... levels.push(currentLevel) }
RECURSIVE PeelAll(_, _, _, _)
PeelAll(subSteps, inDegree, queue, levels) ==
  IF queue = <<>> THEN levels
  ELSE LET r == PeelLevel(subSteps, Len(queue), inDegree, queue, <<>>)
       IN PeelAll(subSteps, r.inDegree, r.queue, Append(levels, r.level))

RECURSIVE Flat(_)
Flat(levels) == IF levels = <<>> THEN <<>> ELSE Head(levels) \o Flat(Tail(levels))

\* variant that gives every unvisited node a level of its own
ComputeLevels_TrailingEach(subSteps) ==
  LET inDegree == InitialInDegree(subSteps)
      zero == SelectSeq(subSteps, LAMBDA ss : inDegree[ss.id] = 0)
      queue == [i \in 1..Len(zero) |-> zero[i].id]
      levels == PeelAll(subSteps, inDegree, queue, <<>>)
      laidOut == Range(Flat(levels))
      rest == SelectSeq(subSteps, LAMBDA ss : ss.id \notin laidOut)
  IN levels \o [i \in 1..Len(rest) |-> <<rest[i].id>>]

\* variant whose trailing level holds every sub-step
ComputeLevels_TrailingAll(subSteps) ==
  LET inDegree == InitialInDegree(subSteps)
      zero == SelectSeq(subSteps, LAMBDA ss : inDegree[ss.id] = 0)
      queue == [i \in 1..Len(zero) |-> zero[i].id]
      levels == PeelAll(subSteps, inDegree, queue, <<>>)
  IN IF Len(Flat(levels)) < Len(subSteps)
     THEN Append(levels, [i \in 1..Len(subSteps) |-> subSteps[i].id])
     ELSE levels

\* levels of the topological sort, with the trailing level of unvisited nodes
ComputeLevels(subSteps) ==
  LET inDegree == InitialInDegree(subSteps)
      zero == SelectSeq(subSteps, LAMBDA ss : inDegree[ss.id] = 0)
      queue == [i \in 1..Len(zero) |-> zero[i].id]
      levels == PeelAll(subSteps, inDegree, queue, <<>>)
      laidOut == Range(Flat(levels))
      rest == SelectSeq(subSteps, LAMBDA ss : ss.id \notin laidOut)
      remainingNodes == [i \in 1..Len(rest) |-> rest[i].id]
  IN IF Len(Flat(levels)) < Len(subSteps) /\ remainingNodes # <<>>
     THEN Append(levels, remainingNodes)
     ELSE levels

\* variant that also wraps a column that ends exactly at the canvas width
RECURSIVE PlaceLevels_WrapAtEqual(_, _, _, _, _, _)
PlaceLevels_WrapAtEqual(levels, canvasWidth, currentX, currentY, rowMaxHeight, placed) ==
  IF levels = <<>> THEN placed
  ELSE LET levelNodes == Head(levels)
           columnWidth == cardWidth + hSpacing
           columnHeight == Len(levelNodes) * (cardHeight + vSpacing) - vSpacing
           wrap == currentX > layoutMargin /\ currentX + columnWidth >= canvasWidth
           x == IF wrap THEN layoutMargin ELSE currentX
           y == IF wrap THEN currentY + rowMaxHeight + vSpacing * 2 ELSE currentY
           rowMax == IF wrap THEN 0 ELSE rowMaxHeight
           here == [i \in 1..Len(levelNodes) |->
                      [id |-> levelNodes[i],
                       pos |-> [x |-> x, y |-> y + (i - 1) * (cardHeight + vSpacing)]]]
       IN PlaceLevels_WrapAtEqual(Tail(levels), canvasWidth, x + columnWidth, y,
                                  Max(rowMax, columnHeight), placed \o here)

\* variant whose wrap advances y without the height of the row above
RECURSIVE PlaceLevels_ShortRowAdvance(_, _, _, _, _, _)
PlaceLevels_ShortRowAdvance(levels, canvasWidth, currentX, currentY, rowMaxHeight, placed) ==
  IF levels = <<>> THEN placed
  ELSE LET levelNodes == Head(levels)
           columnWidth == cardWidth + hSpacing
           columnHeight == Len(levelNodes) * (cardHeight + vSpacing) - vSpacing
           wrap == currentX > layoutMargin /\ currentX + columnWidth > canvasWidth
           x == IF wrap THEN layoutMargin ELSE currentX
           y == IF wrap THEN currentY + vSpacing * 2 ELSE currentY
           rowMax == IF wrap THEN 0 ELSE rowMaxHeight
           here == [i \in 1..Len(levelNodes) |->
                      [id |-> levelNodes[i],
                       pos |-> [x |-> x, y |-> y + (i - 1) * (cardHeight + vSpacing)]]]
       IN PlaceLevels_ShortRowAdvance(Tail(levels), canvasWidth,
                                      x + columnWidth, y,
                                      Max(rowMax, columnHeight), placed \o here)

\* levels.forEach: returns the cursor and the positions placed so far
RECURSIVE PlaceLevels(_, _, _, _, _, _)
PlaceLevels(levels, canvasWidth, currentX, currentY, rowMaxHeight, placed) ==
  IF levels = <<>> THEN placed
  ELSE LET levelNodes == Head(levels)
           columnWidth == cardWidth + hSpacing
           columnHeight == Len(levelNodes) * (cardHeight + vSpacing) - vSpacing
           wrap == currentX > layoutMargin /\ currentX + columnWidth > canvasWidth
           x == IF wrap THEN layoutMargin ELSE currentX
           y == IF wrap THEN currentY + rowMaxHeight + vSpacing * 2 ELSE currentY
           rowMax == IF wrap THEN 0 ELSE rowMaxHeight
           here == [i \in 1..Len(levelNodes) |->
                      [id |-> levelNodes[i],
                       pos |-> [x |-> x, y |-> y + (i - 1) * (cardHeight + vSpacing)]]]
       IN PlaceLevels(Tail(levels), canvasWidth, x + columnWidth, y,
                      Max(rowMax, columnHeight), placed \o here)

\* newPositions as a sequence of [id, pos] in placement order
NewPositions(subSteps, canvasWidth) ==
  PlaceLevels(ComputeLevels(subSteps), canvasWidth,
              layoutMargin, layoutMargin, 0, <<>>)

\* variant that moves the card by the computed amount from where it is
PositionAfterLayout_Relative(placed, ss) ==
  IF \E i \in 1..Len(placed) : placed[i].id = ss.id
  THEN LET p == placed[CHOOSE i \in 1..Len(placed) : placed[i].id = ss.id].pos
       IN [x |-> ss.position.x + p.x, y |-> ss.position.y + p.y]
  ELSE ss.position

\* newPositions.get(id) || ss.position
PositionAfterLayout(placed, ss) ==
  IF \E i \in 1..Len(placed) : placed[i].id = ss.id
  THEN placed[CHOOSE i \in 1..Len(placed) :
                 placed[i].id = ss.id
                 /\ \A j \in (i + 1)..Len(placed) : placed[j].id # ss.id].pos
  ELSE ss.position

\* running Math.max(required, v) from 0
RECURSIVE MaxSeq(_)
MaxSeq(s) == IF s = <<>> THEN 0 ELSE Max(Head(s), MaxSeq(Tail(s)))

\* variant that measures the last placed card only
RequiredCanvasSize_LastPlaced(placed) ==
  IF placed = <<>> THEN [w |-> canvasPadding, h |-> canvasPadding]
  ELSE [w |-> placed[Len(placed)].pos.x + cardWidth + canvasPadding,
        h |-> placed[Len(placed)].pos.y + cardHeight + canvasPadding]

\* requiredWidth + 20, requiredHeight + 20
RequiredCanvasSize(placed) ==
  LET right == [i \in 1..Len(placed) |-> placed[i].pos.x + cardWidth]
      bottom == [i \in 1..Len(placed) |-> placed[i].pos.y + cardHeight]
  IN [w |-> MaxSeq(right) + canvasPadding,
      h |-> MaxSeq(bottom) + canvasPadding]

\* variant of the updater that builds each card anew from its id, text and
\* outgoing ids
AutoLayoutIn_FreshCards(task, canvasWidth) ==
  LET placed == NewPositions(SubStepsOf(task), canvasWidth)
      move(ss) == [ss EXCEPT !.position = PositionAfterLayout(placed, ss),
                             !.status = NOT_STARTED]
  IN WithSubSteps(task, [i \in 1..Len(SubStepsOf(task)) |->
                           move(SubStepsOf(task)[i])])

\* the updater of handleAutoLayoutSubSteps
AutoLayoutIn(task, canvasWidth) ==
  LET placed == NewPositions(SubStepsOf(task), canvasWidth)
      move(ss) == [ss EXCEPT !.position = PositionAfterLayout(placed, ss)]
  IN WithSubSteps(task, [i \in 1..Len(SubStepsOf(task)) |->
                           move(SubStepsOf(task)[i])])

\* ---------------------------------------------------------------- unique ids
\* ids that occur in the current task, in a snapshot or in a reference
IdsOfTask(task) ==
  NodeIds(task) \cup
  UNION {Range(SubStepsOf(task)[i].nextSubStepIds) :
           i \in 1..Len(SubStepsOf(task))}

UsedIds ==
  IdsOfTask(editableTask)
  \cup UNION {IdsOfTask(localHistory[i]) : i \in 1..Len(localHistory)}
  \cup UNION {IdsOfTask(localRedoHistory[i]) : i \in 1..Len(localRedoHistory)}
  \cup {selectedSubStepId, connectingState.fromId, draggedSubStepIdRef}

UnusedIds == Uids \ UsedIds

\* generateUniqueId: the k-th id handed out by this command; an id is unique
\* when nothing in the state refers to it, and the least such ids are taken
RECURSIVE KthLeast(_, _)
KthLeast(S, k) ==
  LET m == CHOOSE x \in S : \A y \in S : x <= y
  IN IF k = 1 THEN m ELSE KthLeast(S \ {m}, k - 1)

generateUniqueId(k) == KthLeast(UnusedIds, k)

\* ------------------------------------------------------------ drag and drop
\* Math.max(0, Math.min(v, size - card))
Clamp(v, size, card) == Max(0, Min(v, size - card))

\* innerCanvas.scrollWidth/scrollHeight: box is what the inner canvas's own
\* size and the other cards give; the dragged card, positioned inside the inner
\* canvas at left/top = position, is part of the scrollable area too
MeasuredContainer(task, id, box, card) ==
  [w |-> Max(box.w, NodeOf(task, id).position.x + card.w),
   h |-> Max(box.h, NodeOf(task, id).position.y + card.h)]

\* variant of the drop position without the clamp
DropPosition_Unclamped(pointer, offset, container, card) ==
  [x |-> pointer.x - offset.x, y |-> pointer.y - offset.y]

\* newX/newY of handleSubStepDrop; pointer is canvas-local (scroll included),
\* card is offsetWidth/offsetHeight of the dragged card
DropPosition(pointer, offset, container, card) ==
  [x |-> Clamp(pointer.x - offset.x, container.w, card.w),
   y |-> Clamp(pointer.y - offset.y, container.h, card.h)]

MoveSubStepIn(task, id, pos) ==
  UpdateSubStepIn(task, id, [field |-> "position", value |-> pos])

\* variant of the updater that puts every created sub-step in the first free
\* grid slot
ConfirmProposalsIn_OneSlot(task, count) ==
  LET i == Len(SubStepsOf(task))
      createdSubSteps == [index \in 1..count |->
                            NewSubStep(generateUniqueId(index),
                                       ProposalText(index), i)]
  IN WithSubSteps(task, SubStepsOf(task) \o createdSubSteps)

\* the updater of handleConfirmProposals
ConfirmProposalsIn(task, count) ==
  LET i == Len(SubStepsOf(task))
      createdSubSteps == [index \in 1..count |->
                            NewSubStep(generateUniqueId(index),
                                       ProposalText(index), i + index - 1)]
  IN WithSubSteps(task, SubStepsOf(task) \o createdSubSteps)

\* ---------------------------------------------------------- initial states
Origin == [x |-> 0, y |-> 0]
Idle == [active |-> FALSE, fromId |-> NoId, fromPos |-> Origin]
Drafting(fromId, fromPos) ==
  [active |-> TRUE, fromId |-> fromId, fromPos |-> fromPos]

LoadedSubStep(id, i, next) ==
  [id |-> id, text |-> "loaded", status |-> NOT_STARTED,
   position |-> DefaultPosition(i), nextSubStepIds |-> next]

\* the task prop: a task without sub-steps, or three sub-steps on the default
\* grid with the edges 1 -> 2, 1 -> 3 and 2 -> 3
InitialTasks ==
  {[subSteps |-> <<>>],
   [subSteps |-> <<LoadedSubStep(1, 0, <<2, 3>>),
                   LoadedSubStep(2, 1, <<3>>),
                   LoadedSubStep(3, 2, <<>>)>>]}

\* a task prop without extendedDetails (the field is optional, 650 and 1011
\* assert it with !); a task without a sub-step list reads as the empty list
\* everywhere (d.subSteps || [], ?.subSteps || []), so it is [subSteps |-> <<>>]
BareTask == [subSteps |-> <<>>, noExtendedDetails |-> TRUE]
HasExtendedDetails(task) == "noExtendedDetails" \notin DOMAIN task

Snapshot ==
  [task |-> editableTask, undo |-> localHistory, redo |-> localRedoHistory]
NoSnapshot == [task |-> [subSteps |-> <<>>], undo |-> <<>>, redo |-> <<>>]

NoResize == [w |-> 0, h |-> 0]
\* what is known of the draft in progress: whether it began from Idle or else
\* the source of the draft open before it, the task, the source and the press
\* coordinate at its start, the pointer moves since (counted up to MaxMoves);
\* NoSession after any other command
NoSession ==
  [fromIdle |-> FALSE, prior |-> NoId, task |-> [subSteps |-> <<>>],
   fromId |-> NoId, press |-> Origin, moves |-> 0]
\* no report request in flight; a request in flight holds the editableTask of
\* the render in which the button was pressed
NoRequest == [loading |-> FALSE, task |-> [subSteps |-> <<>>]]
Requested(task) == [loading |-> TRUE, task |-> task]

NoDrop ==
  [pointer |-> Origin, offset |-> Origin, container |-> NoResize,
   card |-> NoResize]

\* History variable `last`, used only to state properties.
\* the record of a command: its name and arguments, what it did to the history
\* ("commit": went through updateEditableTaskWithHistory; "raised": its updater
\* raised an error instead; "undo", "redo": moved one entry; "none"), the state it ran in (of the redo stack a commit
\* keeps only the length), the size it wrote to the inner canvas' style, and
\* (for undo and redo) the commands before it
Done(op, id, to, kind) ==
  [op |-> op, id |-> id, to |-> to,
   kind |-> IF kind = "commit" /\ ~HasExtendedDetails(editableTask)
            THEN "raised" ELSE kind,
   pre |-> IF kind = "commit" THEN [Snapshot EXCEPT !.redo = <<>>]
           ELSE Snapshot,
   redoLen |-> Len(localRedoHistory),
   resize |-> NoResize, drop |-> NoDrop, session |-> NoSession,
             request |-> deckRequest,
   prevOp |-> "", prevPre |-> NoSnapshot, prev2Op |-> ""]

Init ==
  /\ editableTask \in InitialTasks
  /\ localHistory = <<>>
  /\ localRedoHistory = <<>>
  /\ selectedSubStepId = NoId
  /\ connectingState = Idle
  /\ mousePos = Origin
  /\ draggedSubStepIdRef = NoId
  /\ subStepDragOffsetRef = Origin
  /\ deckRequest = NoRequest
  /\ last = [op |-> "init", id |-> NoId, to |-> NoId, kind |-> "none",
             pre |-> NoSnapshot, redoLen |-> 0,
             resize |-> NoResize, drop |-> NoDrop, session |-> NoSession,
             request |-> NoRequest,
             prevOp |-> "", prevPre |-> NoSnapshot, prev2Op |-> ""]

\* ------------------------------------------------------------- environment
\* Between dragstart and drop the browser's native drag owns the pointer: no
\* click, mouse or keyboard handler of the editor runs in between.
NoDragInProgress == draggedSubStepIdRef = NoId

\* ----------------------------------------------------------------- history
\* the history still has room for one more entry (bound of the model)
HistoryRoom == Len(localHistory) < MaxHistory

\* variants: redo is not cleared; the new state is pushed instead of the old
updateEditableTaskWithHistory_KeepRedo(newTask) ==
  /\ localHistory' = Append(localHistory, editableTask)
  /\ localRedoHistory' = localRedoHistory
  /\ editableTask' = newTask

updateEditableTaskWithHistory_PushNew(newTask) ==
  /\ localHistory' = Append(localHistory, newTask)
  /\ localRedoHistory' = <<>>
  /\ editableTask' = newTask

\* setEditableTask(currentTask => { push currentTask; clear redo; updater })
updateEditableTaskWithHistory(newTask) ==
  /\ localHistory' = Append(localHistory, editableTask)
  /\ localRedoHistory' = <<>>
  /\ editableTask' = newTask

HistoryUnchanged == UNCHANGED <<editableTask, localHistory, localRedoHistory>>

\* updateExtended with a function: the updater is applied to
\* prev.extendedDetails!, and every updater reads d.subSteps, which raises a
\* TypeError when the task has no extendedDetails; nothing is committed then
updateExtended(newTask) ==
  IF HasExtendedDetails(editableTask)
  THEN updateEditableTaskWithHistory(newTask)
  ELSE HistoryUnchanged
SessionUnchanged == UNCHANGED <<connectingState, mousePos>>
DragUnchanged == UNCHANGED <<draggedSubStepIdRef, subStepDragOffsetRef>>

\* variants of undo: the oldest entry is restored instead of the newest; the
\* empty-stack test is missing
handleLocalUndo_RestoreOldest ==
  /\ NoDragInProgress
  /\ IF Len(localHistory) = 0
     THEN /\ HistoryUnchanged
          /\ last' = Done("undo", NoId, NoId, "none")
     ELSE /\ editableTask' = localHistory[1]
          /\ localHistory' = SubSeq(localHistory, 1, Len(localHistory) - 1)
          /\ localRedoHistory' = <<editableTask>> \o localRedoHistory
          /\ last' = [Done("undo", NoId, NoId, "undo") EXCEPT
                        !.prevOp = IF last.kind \in {"commit", "redo"}
                                   THEN last.kind ELSE "",
                        !.prevPre = IF last.kind \in {"commit", "redo"}
                                    THEN last.pre ELSE NoSnapshot]
  /\ SessionUnchanged /\ DragUnchanged
  /\ UNCHANGED selectedSubStepId
  /\ UNCHANGED deckRequest

handleLocalUndo_NoGuard ==
  /\ NoDragInProgress
  /\ IF Len(localHistory) = 0
     THEN /\ Len(localRedoHistory) < MaxHistory
          /\ localRedoHistory' = <<editableTask>> \o localRedoHistory
          /\ UNCHANGED <<editableTask, localHistory>>
          /\ last' = Done("undo", NoId, NoId, "none")
     ELSE /\ editableTask' = localHistory[Len(localHistory)]
          /\ localHistory' = SubSeq(localHistory, 1, Len(localHistory) - 1)
          /\ localRedoHistory' = <<editableTask>> \o localRedoHistory
          /\ last' = [Done("undo", NoId, NoId, "undo") EXCEPT
                        !.prevOp = IF last.kind \in {"commit", "redo"}
                                   THEN last.kind ELSE "",
                        !.prevPre = IF last.kind \in {"commit", "redo"}
                                    THEN last.pre ELSE NoSnapshot]
  /\ SessionUnchanged /\ DragUnchanged
  /\ UNCHANGED selectedSubStepId
  /\ UNCHANGED deckRequest

handleLocalUndo ==
  /\ NoDragInProgress
  /\ IF Len(localHistory) = 0
     THEN /\ HistoryUnchanged
          /\ last' = Done("undo", NoId, NoId, "none")
     ELSE /\ editableTask' = localHistory[Len(localHistory)]
          /\ localHistory' = SubSeq(localHistory, 1, Len(localHistory) - 1)
          /\ localRedoHistory' = <<editableTask>> \o localRedoHistory
          /\ last' = [Done("undo", NoId, NoId, "undo") EXCEPT
                        !.prevOp = IF last.kind \in {"commit", "redo"}
                                   THEN last.kind ELSE "",
                        !.prevPre = IF last.kind \in {"commit", "redo"}
                                    THEN last.pre ELSE NoSnapshot]
  /\ SessionUnchanged /\ DragUnchanged
  /\ UNCHANGED selectedSubStepId
  /\ UNCHANGED deckRequest

\* variant of redo: the restored state, not the current one, goes to the undo
\* stack
handleLocalRedo_PushNext ==
  /\ NoDragInProgress
  /\ IF Len(localRedoHistory) = 0
     THEN /\ HistoryUnchanged
          /\ last' = Done("redo", NoId, NoId, "none")
     ELSE /\ editableTask' = localRedoHistory[1]
          /\ localRedoHistory' = Tail(localRedoHistory)
          /\ localHistory' = Append(localHistory, localRedoHistory[1])
          /\ last' = [Done("redo", NoId, NoId, "redo") EXCEPT
                        !.prevOp = IF last.kind = "undo" THEN "undo" ELSE "",
                        !.prevPre = IF last.kind = "undo"
                                    THEN last.pre ELSE NoSnapshot,
                        !.prev2Op = IF last.kind = "undo"
                                       /\ last.prevOp = "commit"
                                    THEN "commit" ELSE ""]
  /\ SessionUnchanged /\ DragUnchanged
  /\ UNCHANGED selectedSubStepId
  /\ UNCHANGED deckRequest

handleLocalRedo ==
  /\ NoDragInProgress
  /\ IF Len(localRedoHistory) = 0
     THEN /\ HistoryUnchanged
          /\ last' = Done("redo", NoId, NoId, "none")
     ELSE /\ editableTask' = localRedoHistory[1]
          /\ localRedoHistory' = Tail(localRedoHistory)
          /\ localHistory' = Append(localHistory, editableTask)
          /\ last' = [Done("redo", NoId, NoId, "redo") EXCEPT
                        !.prevOp = IF last.kind = "undo" THEN "undo" ELSE "",
                        !.prevPre = IF last.kind = "undo"
                                    THEN last.pre ELSE NoSnapshot,
                        !.prev2Op = IF last.kind = "undo"
                                       /\ last.prevOp = "commit"
                                    THEN "commit" ELSE ""]
  /\ SessionUnchanged /\ DragUnchanged
  /\ UNCHANGED selectedSubStepId
  /\ UNCHANGED deckRequest

\* ------------------------------------------------------------ graph commands
handleAddSubStep ==
  /\ NoDragInProgress
  /\ HistoryRoom
  /\ Cardinality(UnusedIds) >= 1
  /\ updateExtended(
       AddSubStepTo(editableTask, generateUniqueId(1)))
  /\ selectedSubStepId' = generateUniqueId(1)
  /\ last' = Done("addNode", generateUniqueId(1), NoId, "commit")
  /\ SessionUnchanged /\ DragUnchanged
  /\ UNCHANGED deckRequest

\* the trash button of a rendered card
handleRemoveSubStep ==
  \E idToRemove \in NodeIds(editableTask) :
    /\ NoDragInProgress
    /\ HistoryRoom
    /\ selectedSubStepId' =
         IF selectedSubStepId = idToRemove THEN NoId ELSE selectedSubStepId
    /\ updateExtended(RemoveSubStepFrom(editableTask, idToRemove))
    /\ last' = Done("removeNode", idToRemove, NoId, "commit")
    /\ SessionUnchanged /\ DragUnchanged
    /\ UNCHANGED deckRequest

\* onClick of a rendered card
SelectSubStep ==
  \E id \in NodeIds(editableTask) :
    /\ NoDragInProgress
    /\ selectedSubStepId' = id
    /\ last' = Done("select", id, NoId, "none")
    /\ HistoryUnchanged /\ SessionUnchanged /\ DragUnchanged
    /\ UNCHANGED deckRequest

\* the fields of the details panel: handleUpdateSubStep(id, {text: ...}) and
\* handleUpdateSubStep(id, {status: ...}) for a sub-step of the list
handleUpdateSubStep ==
  \E subStepId \in NodeIds(editableTask) :
    \E updates \in FieldUpdates :
      /\ NoDragInProgress
      /\ HistoryRoom
      /\ updateExtended(
           UpdateSubStepIn(editableTask, subStepId, updates))
      /\ last' = Done("updateNode", subStepId, NoId, "commit")
      /\ SessionUnchanged /\ DragUnchanged
      /\ UNCHANGED selectedSubStepId
      /\ UNCHANGED deckRequest

\* the delete handle of a rendered connector
handleDeleteConnection ==
  \E sourceId \in NodeIds(editableTask) :
    \E targetId \in NodeIds(editableTask) :
      /\ NoDragInProgress
      /\ HistoryRoom
      /\ Contains(NodeOf(editableTask, sourceId).nextSubStepIds, targetId)
      /\ updateExtended(
           DisconnectIn(editableTask, sourceId, targetId))
      /\ last' = Done("removeEdge", sourceId, targetId, "commit")
      /\ SessionUnchanged /\ DragUnchanged
      /\ UNCHANGED selectedSubStepId
      /\ UNCHANGED deckRequest

ConfirmProposalsOf(count) ==
  /\ NoDragInProgress
  /\ HistoryRoom
  /\ Cardinality(UnusedIds) >= count
  /\ updateExtended(ConfirmProposalsIn(editableTask, count))
  /\ last' = Done("acceptProposals", NoId, count, "commit")
  /\ SessionUnchanged /\ DragUnchanged
  /\ UNCHANGED selectedSubStepId
  /\ UNCHANGED deckRequest

handleConfirmProposals ==
  \E count \in ProposalCounts : ConfirmProposalsOf(count)

\* -------------------------------------------------------- connection session
\* mouse down on the connection handle of a rendered card
\* variant of the press that keeps a draft already open
StartConnectionAt_KeepOpen(fromId, fromPos) ==
  /\ NoDragInProgress
  /\ connectingState' = IF connectingState.active THEN connectingState
                        ELSE Drafting(fromId, fromPos)
  /\ last' = [Done("beginDrag", fromId, NoId, "none") EXCEPT
                !.session = [fromIdle |-> ~connectingState.active,
                             prior |-> connectingState.fromId,
                             task |-> editableTask, fromId |-> fromId,
                             press |-> fromPos, moves |-> 0]]
  /\ HistoryUnchanged /\ DragUnchanged
  /\ UNCHANGED <<mousePos, selectedSubStepId>>
  /\ UNCHANGED deckRequest

StartConnectionAt(fromId, fromPos) ==
  /\ NoDragInProgress
  /\ connectingState' = Drafting(fromId, fromPos)
  /\ last' = [Done("beginDrag", fromId, NoId, "none") EXCEPT
                !.session = [fromIdle |-> ~connectingState.active,
                             prior |-> connectingState.fromId,
                             task |-> editableTask, fromId |-> fromId,
                             press |-> fromPos, moves |-> 0]]
  /\ HistoryUnchanged /\ DragUnchanged
  /\ UNCHANGED <<mousePos, selectedSubStepId>>
  /\ UNCHANGED deckRequest

handleStartConnection ==
  \E fromId \in NodeIds(editableTask) :
    \E fromPos \in PointerCoords : StartConnectionAt(fromId, fromPos)

\* variant of the mouse move that records the move in the history
CanvasMouseMoveTo_Recorded(pointer) ==
  /\ NoDragInProgress
  /\ connectingState.active
  /\ HistoryRoom
  /\ mousePos' = pointer
  /\ updateEditableTaskWithHistory(editableTask)
  /\ last' = [Done("movePointer", NoId, NoId, "none") EXCEPT
                !.session = [last.session EXCEPT
                               !.moves = Min(MaxMoves, @ + 1)]]
  /\ DragUnchanged
  /\ UNCHANGED <<connectingState, selectedSubStepId>>
  /\ UNCHANGED deckRequest

\* variant of the mouse move that lays the sub-steps out again
CanvasMouseMoveTo_Relayout(pointer) ==
  /\ NoDragInProgress
  /\ connectingState.active
  /\ mousePos' = pointer
  /\ editableTask' = AutoLayoutIn(editableTask, pointer.x)
  /\ last' = [Done("movePointer", NoId, NoId, "none") EXCEPT
                !.session = [last.session EXCEPT
                               !.moves = Min(MaxMoves, @ + 1)]]
  /\ DragUnchanged
  /\ UNCHANGED <<localHistory, localRedoHistory, connectingState,
                 selectedSubStepId>>
  /\ UNCHANGED deckRequest

\* mouse move over the canvas; without a draft the handler returns at once
CanvasMouseMoveTo(pointer) ==
  /\ NoDragInProgress
  /\ connectingState.active
  /\ mousePos' = pointer
  /\ last' = [Done("movePointer", NoId, NoId, "none") EXCEPT
                !.session = [last.session EXCEPT
                               !.moves = Min(MaxMoves, @ + 1)]]
  /\ HistoryUnchanged /\ DragUnchanged
  /\ UNCHANGED <<connectingState, selectedSubStepId>>
  /\ UNCHANGED deckRequest

handleCanvasMouseMove ==
  \E pointer \in PointerCoords : CanvasMouseMoveTo(pointer)

\* variant of the release that keeps the draft open on a self-connection
handleEndConnection_SelfKeepsDraft ==
  \E targetId \in NodeIds(editableTask) :
    /\ NoDragInProgress
    /\ IF ~connectingState.active
       THEN /\ HistoryUnchanged
            /\ UNCHANGED connectingState
            /\ last' = Done("release", NoId, targetId, "none")
       ELSE IF connectingState.fromId = targetId
       THEN /\ UNCHANGED connectingState
            /\ HistoryUnchanged
            /\ last' = Done("release", connectingState.fromId, targetId, "none")
       ELSE /\ HistoryRoom
            /\ updateExtended(
                 ConnectIn(editableTask, connectingState.fromId, targetId))
            /\ connectingState' = Idle
            /\ last' = [Done("release", connectingState.fromId, targetId,
                             "commit") EXCEPT !.session = last.session]
    /\ DragUnchanged
    /\ UNCHANGED <<mousePos, selectedSubStepId>>
    /\ UNCHANGED deckRequest

\* variant of the release without the test for a self-connection
handleEndConnection_NoSelfCheck ==
  \E targetId \in NodeIds(editableTask) :
    /\ NoDragInProgress
    /\ IF ~connectingState.active
       THEN /\ HistoryUnchanged
            /\ UNCHANGED connectingState
            /\ last' = Done("release", NoId, targetId, "none")
       ELSE /\ HistoryRoom
            /\ updateExtended(
                 ConnectIn(editableTask, connectingState.fromId, targetId))
            /\ connectingState' = Idle
            /\ last' = [Done("release", connectingState.fromId, targetId,
                             "commit") EXCEPT !.session = last.session]
    /\ DragUnchanged
    /\ UNCHANGED <<mousePos, selectedSubStepId>>
    /\ UNCHANGED deckRequest

\* mouse up on a rendered card (propagation to the canvas is stopped)
handleEndConnection ==
  \E targetId \in NodeIds(editableTask) :
    /\ NoDragInProgress
    /\ IF ~connectingState.active
       THEN /\ HistoryUnchanged
            /\ UNCHANGED connectingState
            /\ last' = Done("release", NoId, targetId, "none")
       ELSE IF connectingState.fromId = targetId
       THEN /\ connectingState' = Idle
            /\ HistoryUnchanged
            /\ last' = Done("release", connectingState.fromId, targetId, "none")
       ELSE /\ HistoryRoom
            /\ updateExtended(
                 ConnectIn(editableTask, connectingState.fromId, targetId))
            /\ connectingState' = Idle
            /\ last' = [Done("release", connectingState.fromId, targetId,
                             "commit") EXCEPT !.session = last.session]
    /\ DragUnchanged
    /\ UNCHANGED <<mousePos, selectedSubStepId>>
    /\ UNCHANGED deckRequest

\* mouse up on the canvas outside every card
handleCanvasMouseUp ==
  /\ NoDragInProgress
  /\ connectingState.active
  /\ connectingState' = Idle
  /\ last' = Done("cancel", NoId, NoId, "none")
  /\ HistoryUnchanged /\ DragUnchanged
  /\ UNCHANGED <<mousePos, selectedSubStepId>>
  /\ UNCHANGED deckRequest

\* ------------------------------------------------------------------- layout
\* variant without the early return on an empty list
AutoLayoutAt_NoEmptyCheck(canvasWidth) ==
  /\ NoDragInProgress
  /\ HistoryRoom
  /\ updateExtended(AutoLayoutIn(editableTask, canvasWidth))
  /\ last' = [Done("autoLayout", NoId, canvasWidth, "commit") EXCEPT
                !.resize = RequiredCanvasSize(
                  NewPositions(SubStepsOf(editableTask), canvasWidth))]
  /\ SessionUnchanged /\ DragUnchanged
  /\ UNCHANGED selectedSubStepId
  /\ UNCHANGED deckRequest

\* the handler on a canvas whose clientWidth is canvasWidth
AutoLayoutAt(canvasWidth) ==
  /\ NoDragInProgress
  /\ IF Len(SubStepsOf(editableTask)) = 0
     THEN /\ HistoryUnchanged
          /\ last' = Done("autoLayout", NoId, canvasWidth, "none")
     ELSE /\ HistoryRoom
          /\ updateExtended(
               AutoLayoutIn(editableTask, canvasWidth))
          /\ last' = [Done("autoLayout", NoId, canvasWidth, "commit") EXCEPT
                        !.resize = RequiredCanvasSize(
                          NewPositions(SubStepsOf(editableTask), canvasWidth))]
  /\ SessionUnchanged /\ DragUnchanged
  /\ UNCHANGED selectedSubStepId
  /\ UNCHANGED deckRequest

handleAutoLayoutSubSteps == \E canvasWidth \in CanvasWidths : AutoLayoutAt(canvasWidth)

\* ------------------------------------------------------------- card dragging
DragStartWith(subStepId, offset) ==
  /\ NoDragInProgress
  /\ draggedSubStepIdRef' = subStepId
  /\ subStepDragOffsetRef' = offset
  /\ last' = Done("dragStart", subStepId, NoId, "none")
  /\ HistoryUnchanged /\ SessionUnchanged
  /\ UNCHANGED selectedSubStepId
  /\ UNCHANGED deckRequest

handleSubStepDragStart ==
  \E subStepId \in NodeIds(editableTask) :
    \E offset \in DragOffsets : DragStartWith(subStepId, offset)

\* the drop at a pointer, on an inner canvas whose own box is box, of a card
\* measured as card
DropAt(pointer, box, card) ==
  /\ draggedSubStepIdRef # NoId
  /\ IF draggedSubStepIdRef \notin NodeIds(editableTask)
     THEN /\ HistoryUnchanged
          /\ UNCHANGED draggedSubStepIdRef
          /\ last' = Done("drop", draggedSubStepIdRef, NoId, "none")
     ELSE /\ HistoryRoom
          /\ updateExtended(
               MoveSubStepIn(editableTask, draggedSubStepIdRef,
                 DropPosition(pointer, subStepDragOffsetRef,
                   MeasuredContainer(editableTask, draggedSubStepIdRef, box,
                                     card), card)))
          /\ draggedSubStepIdRef' = NoId
          /\ last' = [Done("drop", draggedSubStepIdRef, NoId, "commit") EXCEPT
                        !.drop = [pointer |-> pointer,
                                  offset |-> subStepDragOffsetRef,
                                  container |-> MeasuredContainer(
                                    editableTask, draggedSubStepIdRef, box, card),
                                  card |-> card]]
  /\ SessionUnchanged
  /\ UNCHANGED <<subStepDragOffsetRef, selectedSubStepId>>
  /\ UNCHANGED deckRequest

handleSubStepDrop ==
  \E pointer \in PointerCoords :
    \E box \in ContainerSizes :
      \E card \in CardSizes : DropAt(pointer, box, card)

\* ------------------------------------------------------------- action items
\* ss.actionItems, undefined read as no items
ActionItemsOf(ss) ==
  IF "actionItems" \in DOMAIN ss THEN ss.actionItems ELSE <<>>

\* {...ss, actionItems: items}
WithActionItems(ss, items) ==
  [f \in DOMAIN ss \cup {"actionItems"} |->
     IF f = "actionItems" THEN items ELSE ss[f]]

\* variant of the status rule in which one completed item completes the step
StatusFromItems_AnyCompletes(items) ==
  IF Len(items) > 0
  THEN IF \E k \in 1..Len(items) : items[k].completed THEN COMPLETED
       ELSE NOT_STARTED
  ELSE NOT_STARTED

\* newStatus of handleToggleActionItem
StatusFromItems(items) ==
  IF Len(items) > 0
  THEN IF \A k \in 1..Len(items) : items[k].completed THEN COMPLETED
       ELSE IF \E k \in 1..Len(items) : items[k].completed THEN IN_PROGRESS
       ELSE NOT_STARTED
  ELSE NOT_STARTED

\* the updater of handleToggleActionItem
ToggleActionItemIn(task, subStepId, itemId) ==
  LET toggled(ss) ==
        LET newActionItems ==
              [k \in 1..Len(ActionItemsOf(ss)) |->
                 IF ActionItemsOf(ss)[k].id = itemId
                 THEN [ActionItemsOf(ss)[k] EXCEPT !.completed = ~@]
                 ELSE ActionItemsOf(ss)[k]]
        IN [WithActionItems(ss, newActionItems) EXCEPT
              !.status = StatusFromItems(newActionItems)]
  IN WithSubSteps(task, [i \in 1..Len(SubStepsOf(task)) |->
                           IF SubStepsOf(task)[i].id = subStepId
                           THEN toggled(SubStepsOf(task)[i])
                           ELSE SubStepsOf(task)[i]])

\* the checkbox of an item in the checklist of the selected sub-step
handleToggleActionItem ==
  /\ NoDragInProgress
  /\ selectedSubStepId \in NodeIds(editableTask)
  /\ HistoryRoom
  /\ \E k \in 1..Len(ActionItemsOf(NodeOf(editableTask, selectedSubStepId))) :
       LET itemId == ActionItemsOf(NodeOf(editableTask,
                                          selectedSubStepId))[k].id
       IN /\ updateExtended(
               ToggleActionItemIn(editableTask, selectedSubStepId, itemId))
          /\ last' = Done("toggleItem", selectedSubStepId, itemId, "commit")
  /\ SessionUnchanged /\ DragUnchanged
  /\ UNCHANGED <<selectedSubStepId, deckRequest>>

\* -------------------------------------------------------------- report deck
\* {...prev.extendedDetails!, reportDeck: deck}: the spread keeps every other
\* field of the details
WithReportDeck(task, deck) ==
  [f \in DOMAIN task \cup {"reportDeck"} |->
     IF f = "reportDeck" THEN deck ELSE task[f]]

HasReportDeck(task) == "reportDeck" \in DOMAIN task

\* variant that writes the deck into the task the request was started with
ApplyReportDeck_ToCaptured(current, captured, deck) ==
  WithReportDeck(captured, deck)

\* updateExtended({reportDeck: deck}) after the await: the functional update
\* runs on the task current at that time, not on the captured editableTask
ApplyReportDeck(current, captured, deck) == WithReportDeck(current, deck)

\* the report button (disabled while a request is in flight): with a deck the
\* slide editor opens, without one generateInitialSlideDeck is called
handleOpenReportEditor ==
  /\ NoDragInProgress
  /\ ~deckRequest.loading
  /\ deckRequest' = IF HasReportDeck(editableTask) THEN deckRequest
                    ELSE Requested(editableTask)
  /\ last' = Done("openReport", NoId, NoId, "none")
  /\ HistoryUnchanged /\ SessionUnchanged /\ DragUnchanged
  /\ UNCHANGED selectedSubStepId

\* the awaited call resolves with a deck
ReportDeckArrives ==
  \E deck \in Decks :
    /\ deckRequest.loading
    /\ HistoryRoom
    /\ updateEditableTaskWithHistory(
         ApplyReportDeck(editableTask, deckRequest.task, deck))
    /\ deckRequest' = NoRequest
    /\ last' = [Done("deckArrived", NoId, NoId, "commit") EXCEPT
                  !.kind = "commit"]
    /\ SessionUnchanged /\ DragUnchanged
    /\ UNCHANGED selectedSubStepId

\* the awaited call rejects: an alert, and the button is enabled again
ReportDeckFails ==
  /\ deckRequest.loading
  /\ deckRequest' = NoRequest
  /\ last' = Done("deckFailed", NoId, NoId, "none")
  /\ HistoryUnchanged /\ SessionUnchanged /\ DragUnchanged
  /\ UNCHANGED selectedSubStepId

\* ------------------------------------------------------------ specification
Next ==
  \/ handleAddSubStep
  \/ handleRemoveSubStep
  \/ handleUpdateSubStep
  \/ handleDeleteConnection
  \/ handleConfirmProposals
  \/ handleStartConnection
  \/ handleEndConnection
  \/ handleCanvasMouseUp
  \/ handleAutoLayoutSubSteps
  \/ handleSubStepDragStart
  \/ handleSubStepDrop
  \/ handleLocalUndo
  \/ handleLocalRedo

Spec == Init /\ [][Next]_vars

\* --------------------------------------------------- layout specification
\* The automatic layout on its own: the task prop ranges over the graphs of
\* LayoutTasks and the canvas over LayoutWidths.
LayoutIds == {1, 2, 3, 4}
LayoutWidths == {100, 513, 514, 800}
NodeOrders == {<<1, 2, 3>>, <<3, 1, 2>>}

\* outgoing lists of at most two distinct ids; id 4 names no sub-step
LayoutLists ==
  {<<>>} \cup {<<a>> : a \in LayoutIds}
  \cup {p \in {<<a, b>> : a \in LayoutIds, b \in LayoutIds} : p[1] # p[2]}

\* nodes 1..5 with the edges 1 -> 2, 2 -> 3, 1 -> 4, 4 -> 3
ScenarioTask ==
  [subSteps |-> <<LoadedSubStep(1, 0, <<2, 4>>), LoadedSubStep(2, 1, <<3>>),
                  LoadedSubStep(3, 2, <<>>), LoadedSubStep(4, 3, <<3>>),
                  LoadedSubStep(5, 4, <<>>)>>]

\* the same graph with the sub-steps stored in another order
ScenarioShuffled ==
  [subSteps |-> <<LoadedSubStep(4, 0, <<3>>), LoadedSubStep(5, 1, <<>>),
                  LoadedSubStep(3, 2, <<>>), LoadedSubStep(1, 3, <<4, 2>>),
                  LoadedSubStep(2, 4, <<3>>)>>]

CycleTask ==
  [subSteps |-> <<LoadedSubStep(1, 0, <<2>>), LoadedSubStep(2, 1, <<1>>)>>]

LayoutTasks ==
  {ScenarioTask, ScenarioShuffled, CycleTask}
  \cup {[subSteps |-> [i \in 1..3 |-> LoadedSubStep(order[i], i - 1, next[i])]] :
          order \in NodeOrders, next \in [1..3 -> LayoutLists]}

LayoutInit ==
  /\ editableTask \in LayoutTasks
  /\ localHistory = <<>>
  /\ localRedoHistory = <<>>
  /\ selectedSubStepId = NoId
  /\ connectingState = Idle
  /\ mousePos = Origin
  /\ draggedSubStepIdRef = NoId
  /\ subStepDragOffsetRef = Origin
  /\ deckRequest = NoRequest
  /\ last = [op |-> "init", id |-> NoId, to |-> NoId, kind |-> "none",
             pre |-> NoSnapshot, redoLen |-> 0,
             resize |-> NoResize, drop |-> NoDrop, session |-> NoSession,
             request |-> NoRequest,
             prevOp |-> "", prevPre |-> NoSnapshot, prev2Op |-> ""]

\* the button is pressed on a canvas of any width, and again on that canvas
LayoutOnAnyCanvas ==
  \E canvasWidth \in LayoutWidths :
    /\ localHistory = <<>> \/ last.to = canvasWidth
    /\ AutoLayoutAt(canvasWidth)

LayoutNext == LayoutOnAnyCanvas

LayoutSpec == LayoutInit /\ [][LayoutNext]_vars

\* ------------------------------------------------- drag specification
\* dragging cards alone: pointers left of, above, inside and beyond the canvas,
\* canvases from an unsized inner canvas to a large one, cards of the minimum
\* height and taller
DragAxis == {0 - 40, 150, 1000}
DragPointers == {[x |-> px, y |-> py] : px \in DragAxis, py \in DragAxis}
DragGrabOffsets == {[x |-> 0, y |-> 0], [x |-> 30, y |-> 20]}
DragBoxes == {[w |-> 100, h |-> 0], [w |-> 600, h |-> 400]}
DragCards == {[w |-> cardWidth, h |-> minCardHeight], [w |-> cardWidth, h |-> 120]}

DragTasks ==
  {[subSteps |-> <<LoadedSubStep(1, 0, <<>>)>>],
   [subSteps |-> <<LoadedSubStep(1, 0, <<2>>), LoadedSubStep(2, 1, <<>>)>>]}

DragInit ==
  /\ editableTask \in DragTasks
  /\ localHistory = <<>>
  /\ localRedoHistory = <<>>
  /\ selectedSubStepId = NoId
  /\ connectingState = Idle
  /\ mousePos = Origin
  /\ draggedSubStepIdRef = NoId
  /\ subStepDragOffsetRef = Origin
  /\ deckRequest = NoRequest
  /\ last = [op |-> "init", id |-> NoId, to |-> NoId, kind |-> "none",
             pre |-> NoSnapshot, redoLen |-> 0,
             resize |-> NoResize, drop |-> NoDrop, session |-> NoSession,
             request |-> NoRequest,
             prevOp |-> "", prevPre |-> NoSnapshot, prev2Op |-> ""]

DragStartAnywhere ==
  \E subStepId \in NodeIds(editableTask) :
    \E offset \in DragGrabOffsets : DragStartWith(subStepId, offset)

DropAnywhere ==
  \E pointer \in DragPointers :
    \E box \in DragBoxes :
      \E card \in DragCards : DropAt(pointer, box, card)

DragNext == DragStartAnywhere \/ DropAnywhere

DragSpec == DragInit /\ [][DragNext]_vars

\* ---------------------------------------------- connection specification
\* drawing connections with a moving pointer, next to the commands that can be
\* issued while a draft is open (the buttons lie outside the canvas, so a mouse
\* up on them does not cancel the draft)
SessionPointers == {[x |-> 100, y |-> 50], [x |-> 300, y |-> 200]}

StartConnectionAnywhere ==
  \E fromId \in NodeIds(editableTask) :
    \E fromPos \in SessionPointers : StartConnectionAt(fromId, fromPos)

CanvasMouseMoveAnywhere ==
  \E pointer \in SessionPointers : CanvasMouseMoveTo(pointer)

SessionNext ==
  \/ StartConnectionAnywhere
  \/ CanvasMouseMoveAnywhere
  \/ handleEndConnection
  \/ handleCanvasMouseUp
  \/ handleSubStepDragStart
  \/ handleSubStepDrop
  \/ handleAddSubStep
  \/ handleLocalUndo
  \/ handleLocalRedo

SessionSpec == Init /\ [][SessionNext]_vars

\* ------------------------------------------------ bare-task specification
\* the editor opened on any task: one without extended details, one without
\* sub-steps, one with sub-steps and edges
BareInit ==
  /\ editableTask \in InitialTasks \cup {BareTask}
  /\ localHistory = <<>>
  /\ localRedoHistory = <<>>
  /\ selectedSubStepId = NoId
  /\ connectingState = Idle
  /\ mousePos = Origin
  /\ draggedSubStepIdRef = NoId
  /\ subStepDragOffsetRef = Origin
  /\ deckRequest = NoRequest
  /\ last = [op |-> "init", id |-> NoId, to |-> NoId, kind |-> "none",
             pre |-> NoSnapshot, redoLen |-> 0,
             resize |-> NoResize, drop |-> NoDrop, session |-> NoSession,
             request |-> NoRequest,
             prevOp |-> "", prevPre |-> NoSnapshot, prev2Op |-> ""]

BareNext == Next

BareSpec == BareInit /\ [][BareNext]_vars

\* -------------------------------------------------- add specification
\* adding sub-steps to tasks of up to MaxLoaded sub-steps, so that the new
\* sub-step falls in every column of the default grid and in its second row;
\* the loaded ids lie above the ids the generator hands out
LoadedId(i) == Cardinality(Uids) + i

AddTasks ==
  {[subSteps |-> [i \in 1..n |->
      LoadedSubStep(LoadedId(i), i - 1,
                    IF i < n THEN <<LoadedId(i + 1)>> ELSE <<>>)]] :
     n \in 0..MaxLoaded}

AddInit ==
  /\ editableTask \in AddTasks
  /\ localHistory = <<>>
  /\ localRedoHistory = <<>>
  /\ selectedSubStepId = NoId
  /\ connectingState = Idle
  /\ mousePos = Origin
  /\ draggedSubStepIdRef = NoId
  /\ subStepDragOffsetRef = Origin
  /\ deckRequest = NoRequest
  /\ last = [op |-> "init", id |-> NoId, to |-> NoId, kind |-> "none",
             pre |-> NoSnapshot, redoLen |-> 0,
             resize |-> NoResize, drop |-> NoDrop, session |-> NoSession,
             request |-> NoRequest,
             prevOp |-> "", prevPre |-> NoSnapshot, prev2Op |-> ""]

AddNext ==
  \/ handleAddSubStep
  \/ handleRemoveSubStep
  \/ handleLocalUndo
  \/ handleLocalRedo

AddSpec == AddInit /\ [][AddNext]_vars

\* --------------------------------------------- proposals specification
\* accepting one, two or three proposals on the tasks of the add specification
AcceptedCounts == {1, 2, 3}

ConfirmAnyProposals ==
  \E count \in AcceptedCounts : ConfirmProposalsOf(count)

ProposalNext ==
  \/ ConfirmAnyProposals
  \/ handleAddSubStep
  \/ handleRemoveSubStep
  \/ handleLocalUndo
  \/ handleLocalRedo

ProposalSpec == AddInit /\ [][ProposalNext]_vars

\* ------------------------------------------------ editor with pointer moves
\* every command of the editor session, the pointer moving during a draft
PointerNext == Next \/ handleCanvasMouseMove

PointerSpec == Init /\ [][PointerNext]_vars

\* ------------------------------------------------ report specification
\* editing goes on while the report request is in flight
DeckNext ==
  \/ handleOpenReportEditor
  \/ ReportDeckArrives
  \/ ReportDeckFails
  \/ handleAddSubStep
  \/ handleStartConnection
  \/ handleEndConnection
  \/ handleSubStepDragStart
  \/ handleSubStepDrop
  \/ handleLocalUndo
  \/ handleLocalRedo

DeckSpec == Init /\ [][DeckNext]_vars

\* -------------------------------------------------- load specification
\* the tasks of the project, told apart by their id; the parent passes one of
\* them as the task prop, and another one later
LoadableTasks ==
  {[id |-> "task A",
    subSteps |-> <<LoadedSubStep(1, 0, <<2>>), LoadedSubStep(2, 1, <<>>)>>],
   [id |-> "task B",
    subSteps |-> <<LoadedSubStep(LoadedId(1), 0, <<>>)>>],
   [id |-> "task C", subSteps |-> <<>>]}

\* variant of the effect that keeps the stacks
LoadTask_KeepStacks(task) ==
  /\ editableTask' = task
  /\ UNCHANGED <<localHistory, localRedoHistory>>
  /\ last' = Done("load", NoId, NoId, "none")
  /\ SessionUnchanged /\ DragUnchanged
  /\ UNCHANGED <<selectedSubStepId, deckRequest>>

\* useEffect(..., [task]): the task prop changed
LoadTask(task) ==
  /\ editableTask' = task
  /\ localHistory' = <<>>
  /\ localRedoHistory' = <<>>
  /\ last' = Done("load", NoId, NoId, "none")
  /\ SessionUnchanged /\ DragUnchanged
  /\ UNCHANGED <<selectedSubStepId, deckRequest>>

LoadAnotherTask ==
  \E task \in LoadableTasks :
    /\ task.id # editableTask.id
    /\ LoadTask(task)

LoadInit ==
  /\ editableTask \in LoadableTasks
  /\ localHistory = <<>>
  /\ localRedoHistory = <<>>
  /\ selectedSubStepId = NoId
  /\ connectingState = Idle
  /\ mousePos = Origin
  /\ draggedSubStepIdRef = NoId
  /\ subStepDragOffsetRef = Origin
  /\ deckRequest = NoRequest
  /\ last = [op |-> "init", id |-> NoId, to |-> NoId, kind |-> "none",
             pre |-> NoSnapshot, redoLen |-> 0,
             resize |-> NoResize, drop |-> NoDrop, session |-> NoSession,
             request |-> NoRequest,
             prevOp |-> "", prevPre |-> NoSnapshot, prev2Op |-> ""]

LoadNext ==
  \/ LoadAnotherTask
  \/ handleAddSubStep
  \/ handleRemoveSubStep
  \/ handleStartConnection
  \/ handleEndConnection
  \/ handleLocalUndo
  \/ handleLocalRedo

LoadSpec == LoadInit /\ [][LoadNext]_vars

\* ------------------------------------------------- churn specification
\* adding and removing alone; the task prop is a task as an earlier session of
\* adds saved it: every sub-step was made by handleAddSubStep and lies where
\* it was put
AddedTasks ==
  {[subSteps |-> [i \in 1..n |->
      NewSubStep(LoadedId(i), NewStepText, i - 1)]] : n \in 0..MaxAdded}

ChurnInit ==
  /\ editableTask \in AddedTasks
  /\ localHistory = <<>>
  /\ localRedoHistory = <<>>
  /\ selectedSubStepId = NoId
  /\ connectingState = Idle
  /\ mousePos = Origin
  /\ draggedSubStepIdRef = NoId
  /\ subStepDragOffsetRef = Origin
  /\ deckRequest = NoRequest
  /\ last = [op |-> "init", id |-> NoId, to |-> NoId, kind |-> "none",
             pre |-> NoSnapshot, redoLen |-> 0,
             resize |-> NoResize, drop |-> NoDrop, session |-> NoSession,
             request |-> NoRequest,
             prevOp |-> "", prevPre |-> NoSnapshot, prev2Op |-> ""]

ChurnNext ==
  \/ handleAddSubStep
  \/ handleRemoveSubStep
  \/ handleLocalUndo
  \/ handleLocalRedo

ChurnSpec == ChurnInit /\ [][ChurnNext]_vars

\* ------------------------------------------------ toggle specification
\* checklists of two items in every state of completion, under a status the
\* user may have set by hand, next to a sub-step with one item
ItemPairs ==
  {<<[id |-> 1, completed |-> a], [id |-> 2, completed |-> b]>> :
     a \in BOOLEAN, b \in BOOLEAN}

ToggleTasks ==
  {[subSteps |->
      <<[WithActionItems(LoadedSubStep(LoadedId(1), 0, <<LoadedId(2)>>), items)
           EXCEPT !.status = status],
        WithActionItems(LoadedSubStep(LoadedId(2), 1, <<>>),
                        <<[id |-> 3, completed |-> FALSE]>>)>>] :
     items \in ItemPairs, status \in {NOT_STARTED, IN_PROGRESS, COMPLETED}}

ToggleInit ==
  /\ editableTask \in ToggleTasks
  /\ localHistory = <<>>
  /\ localRedoHistory = <<>>
  /\ selectedSubStepId = NoId
  /\ connectingState = Idle
  /\ mousePos = Origin
  /\ draggedSubStepIdRef = NoId
  /\ subStepDragOffsetRef = Origin
  /\ deckRequest = NoRequest
  /\ last = [op |-> "init", id |-> NoId, to |-> NoId, kind |-> "none",
             pre |-> NoSnapshot, redoLen |-> 0,
             resize |-> NoResize, drop |-> NoDrop, session |-> NoSession,
             request |-> NoRequest,
             prevOp |-> "", prevPre |-> NoSnapshot, prev2Op |-> ""]

ToggleNext ==
  \/ SelectSubStep
  \/ handleToggleActionItem
  \/ handleUpdateSubStep
  \/ handleLocalUndo
  \/ handleLocalRedo

ToggleSpec == ToggleInit /\ [][ToggleNext]_vars

\* =================================================================== claims
\* every outgoing id of the task names one of its nodes, and never the node
\* that lists it
ReferentialIntegrity(task) ==
  \A i \in 1..Len(SubStepsOf(task)) :
    LET ss == SubStepsOf(task)[i]
    IN \A k \in 1..Len(ss.nextSubStepIds) :
         /\ ss.nextSubStepIds[k] \in NodeIds(task)
         /\ ss.nextSubStepIds[k] # ss.id

NoDuplicateTargets(task) ==
  \A i \in 1..Len(SubStepsOf(task)) :
    LET ids == SubStepsOf(task)[i].nextSubStepIds
    IN \A k, l \in 1..Len(ids) : ids[k] = ids[l] => k = l

HasEdge(task, fromId, targetId) ==
  /\ fromId \in NodeIds(task)
  /\ Contains(NodeOf(task, fromId).nextSubStepIds, targetId)

Timeline(s) == s.undo \o <<s.task>> \o s.redo

\* C1: from a graph with referential integrity, after any sequence of addNode,
\* removeNode, updateNode, release, removeEdge, accept-proposals, drop,
\* auto-layout, undo and redo, every id in every outgoing list names an
\* existing node and no node lists itself.
C1_ReferentialIntegrity == ReferentialIntegrity(editableTask)

\* a release has just added an edge on top of two earlier commands
C1_Witness ==
  /\ last.op = "release" /\ last.kind = "commit"
  /\ ~HasEdge(last.pre.task, last.id, last.to)
  /\ HasEdge(editableTask, last.id, last.to)
  /\ Len(localHistory) = MaxHistory

\* C2: after removeNode(id) of an existing node the node is gone, no remaining
\* node's outgoing list contains id, and every other entry of every outgoing
\* list is kept.
C2_RemoveNodePurges ==
  last.op = "removeNode" =>
    /\ last.id \in NodeIds(last.pre.task)
    /\ last.id \notin NodeIds(editableTask)
    /\ NodeIds(editableTask) = NodeIds(last.pre.task) \ {last.id}
    /\ \A n \in NodeIds(editableTask) :
         NodeOf(editableTask, n).nextSubStepIds =
           SelectSeq(NodeOf(last.pre.task, n).nextSubStepIds,
                     LAMBDA t : t # last.id)

\* the removed node was a target of a node that keeps another target
C2_Witness ==
  /\ last.op = "removeNode"
  /\ \E n \in NodeIds(editableTask) :
       /\ Contains(NodeOf(last.pre.task, n).nextSubStepIds, last.id)
       /\ NodeOf(editableTask, n).nextSubStepIds # <<>>

\* C3: removeNode is one atomic mutation recorded as one snapshot, and every
\* task state stored on the undo stack or on the redo stack has referential
\* integrity: no stored snapshot lacks a node that another node still names.
C3_SnapshotsConsistent ==
  /\ \A i \in 1..Len(localHistory) : ReferentialIntegrity(localHistory[i])
  /\ \A i \in 1..Len(localRedoHistory) :
       ReferentialIntegrity(localRedoHistory[i])
  /\ last.op = "removeNode" => Len(localHistory) = Len(last.pre.undo) + 1

\* the result of removing a referenced node sits on the redo stack while the
\* state before a later command sits on the undo stack
C3_Witness ==
  /\ last.kind = "undo"
  /\ localHistory # <<>>
  /\ localRedoHistory # <<>>
  /\ \E id \in NodeIds(editableTask) \ NodeIds(localRedoHistory[1]) :
       \E n \in NodeIds(localRedoHistory[1]) :
         HasEdge(editableTask, n, id)

\* C4: immediately after any command that commits, the redo stack is empty,
\* whatever number of undos preceded the command.
C4_CommitClearsRedo == last.kind = "commit" => localRedoHistory = <<>>

\* a commit that found MaxHistory undone states on the redo stack
C4_Witness == last.kind = "commit" /\ last.redoLen = MaxHistory

\* C5: a command applied in task state S and producing S', followed by undo,
\* makes the current task exactly S; a redo after that undo makes it S'.
C5_UndoThenRedoRestore ==
  /\ (last.kind = "undo" /\ last.prevOp = "commit")
       => editableTask = last.prevPre.task
  /\ (last.kind = "redo" /\ last.prevOp = "undo" /\ last.prev2Op = "commit")
       => editableTask = last.prevPre.task

\* command, undo, redo, with S # S' and an older entry below S on the stack
C5_Witness ==
  /\ last.kind = "redo" /\ last.prevOp = "undo" /\ last.prev2Op = "commit"
  /\ Len(localHistory) = MaxHistory
  /\ editableTask # localHistory[Len(localHistory)]
  /\ localHistory[1] # localHistory[Len(localHistory)]

\* C6: undo and redo are inverses on the whole history: the timeline (undo
\* stack, current task, redo stack) is unchanged by undo and by redo, so undo
\* then redo, and redo then undo, restore the current task and both stacks.
C6_UndoRedoInverse ==
  /\ last.kind \in {"undo", "redo"}
       => Timeline(Snapshot) = Timeline(last.pre)
  /\ (last.kind = "redo" /\ last.prevOp = "undo") => Snapshot = last.prevPre
  /\ (last.kind = "undo" /\ last.prevOp = "redo") => Snapshot = last.prevPre

\* redo then undo, with both stacks non-empty afterwards
C6_Witness ==
  /\ last.kind = "undo" /\ last.prevOp = "redo"
  /\ localHistory # <<>>
  /\ localRedoHistory # <<>>

\* C7: undo with an empty undo stack and redo with an empty redo stack leave
\* the current task, the undo stack and the redo stack unchanged.
C7_EmptyStackNoOp ==
  /\ (last.op = "undo" /\ last.pre.undo = <<>>) => Snapshot = last.pre
  /\ (last.op = "redo" /\ last.pre.redo = <<>>) => Snapshot = last.pre

\* undo was invoked on an empty undo stack while redo held an entry
C7_Witness ==
  /\ last.op = "undo" /\ last.pre.undo = <<>>
  /\ localRedoHistory # <<>>

\* the cases C8 lists
MutatingCase ==
  \/ last.op \in {"addNode", "removeNode", "updateNode", "removeEdge",
                  "acceptProposals"}
  \/ last.op = "release" /\ editableTask # last.pre.task
  \/ last.op = "drop" /\ last.id \in NodeIds(last.pre.task)
  \/ last.op = "autoLayout" /\ SubStepsOf(last.pre.task) # <<>>

\* C8: each mutating command (addNode, removeNode and updateNode of an
\* existing node, a release that adds an edge, removeEdge of an existing edge,
\* accept-proposals, drop, auto-layout on a non-empty graph) appends exactly one
\* entry to the undo stack, equal to the task state just before the command.
C8_OneUndoEntryPerCommand ==
  MutatingCase => localHistory = Append(last.pre.undo, last.pre.task)

\* an auto-layout that moved a card, as the second command of the session
C8_Witness ==
  /\ last.op = "autoLayout"
  /\ editableTask # last.pre.task
  /\ Len(localHistory) = MaxHistory

\* C9: a release on the draft's own source node adds no edge, returns the
\* session to Idle and changes nothing else in the task.
C9_SelfReleaseNoMutation ==
  (last.op = "release" /\ last.id # NoId /\ last.id = last.to) =>
    /\ Snapshot = last.pre
    /\ ~HasEdge(editableTask, last.id, last.id)
    /\ connectingState = Idle

\* a draft was released on the card it started from
C9_Witness ==
  /\ last.op = "release" /\ last.id # NoId /\ last.id = last.to
  /\ last.id \in NodeIds(editableTask)

\* C10: adding an edge that already exists leaves the graph equal to the
\* graph after the first add, and no outgoing list ever contains the same
\* target twice.
C10_EdgeSetSemantics ==
  /\ NoDuplicateTargets(editableTask)
  /\ (last.op = "release" /\ HasEdge(last.pre.task, last.id, last.to))
       => editableTask = last.pre.task

\* a draft was released on a card its source already leads to
C10_Witness ==
  /\ last.op = "release" /\ last.kind = "commit"
  /\ HasEdge(last.pre.task, last.id, last.to)

\* the task with targetId appended to the outgoing list of fromId, nothing else
\* touched
WithEdgeAppended(task, fromId, targetId) ==
  [task EXCEPT !.subSteps =
     [i \in 1..Len(task.subSteps) |->
        IF task.subSteps[i].id = fromId
        THEN [task.subSteps[i] EXCEPT !.nextSubStepIds = Append(@, targetId)]
        ELSE task.subSteps[i]]]

NoOpCase ==
  \/ last.op = "release"
       /\ \/ last.id = NoId
          \/ last.id \notin NodeIds(last.pre.task)
          \/ HasEdge(last.pre.task, last.id, last.to)
  \/ last.op = "removeEdge" /\ ~HasEdge(last.pre.task, last.id, last.to)
  \/ last.op \in {"removeNode", "updateNode"}
       /\ last.id \notin NodeIds(last.pre.task)

\* C12: a no-op command (a release whose source no longer exists, addEdge of
\* an existing edge, removeEdge of an absent edge, removeNode or updateNode of
\* an absent id, a release while Idle) leaves the undo stack and the redo stack
\* unchanged.
C12_NoOpKeepsHistory ==
  NoOpCase =>
    /\ localHistory = last.pre.undo
    /\ Len(localRedoHistory) = last.redoLen

\* the task with targetId taken out of the outgoing list of sourceId, nothing
\* else touched
WithEdgeRemoved(task, sourceId, targetId) ==
  [task EXCEPT !.subSteps =
     [i \in 1..Len(task.subSteps) |->
        IF task.subSteps[i].id = sourceId
        THEN [task.subSteps[i] EXCEPT !.nextSubStepIds =
                SelectSeq(@, LAMBDA t : t # targetId)]
        ELSE task.subSteps[i]]]

\* C13: removeEdge(sourceId, targetId) removes targetId from the source's
\* outgoing list when present (a connector is rendered, and can be deleted,
\* only for a present edge); every other node's outgoing list, every position
\* and the node sequence are unchanged.
C13_RemoveEdgeFrame ==
  last.op = "removeEdge" =>
    /\ HasEdge(last.pre.task, last.id, last.to)
    /\ ~HasEdge(editableTask, last.id, last.to)
    /\ editableTask = WithEdgeRemoved(last.pre.task, last.id, last.to)

\* an edge was deleted whose target is still the target of another node, and
\* whose source keeps another edge
C13_Witness ==
  /\ last.op = "removeEdge"
  /\ NodeOf(editableTask, last.id).nextSubStepIds # <<>>
  /\ \E n \in NodeIds(editableTask) \ {last.id} :
       HasEdge(editableTask, n, last.to)

\* C14: removeNode(id) and updateNode(id, fields) with an id that names no
\* existing node leave the node sequence, every node's fields and every
\* outgoing list unchanged. The card buttons and the details panel issue both
\* only for existing ids; an update of an absent id is issued by the release
\* of a draft whose source was removed.
C14_AbsentIdNoEffect ==
  /\ last.op \in {"removeNode", "updateNode"}
       => last.id \in NodeIds(last.pre.task)
  /\ (last.op \in {"release", "drop"} /\ last.id # NoId
      /\ last.id \notin NodeIds(last.pre.task))
       => editableTask = last.pre.task

\* the update of an absent id ran on a non-empty graph
C14_Witness ==
  /\ last.op = "release" /\ last.kind = "commit"
  /\ last.id \notin NodeIds(last.pre.task)
  /\ Len(SubStepsOf(editableTask)) >= 2

\* ------------------------------------------------------------ layout claims
\* a committed auto-layout has just run on the task LaidOutFrom
AfterLayout == last.op = "autoLayout" /\ last.kind = "commit"
LaidOutFrom == last.pre.task

\* predecessors of n over edges whose two endpoints are present
PresentPreds(task, n) == {m \in NodeIds(task) : HasEdge(task, m, n)}

RECURSIVE Descendants(_, _, _)
Descendants(task, S, k) ==
  IF k = 0 THEN S
  ELSE Descendants(task,
         S \cup {n \in NodeIds(task) : \E m \in S : HasEdge(task, m, n)}, k - 1)

Acyclic(task) ==
  \A n \in NodeIds(task) :
    n \notin Descendants(task,
               {t \in NodeIds(task) : HasEdge(task, n, t)},
               Cardinality(NodeIds(task)))

\* index (from 0) of the first layer that holds n
LayerIndex(levels, n) ==
  (CHOOSE k \in 1..Len(levels) :
     /\ Contains(levels[k], n)
     /\ \A j \in 1..(k - 1) : ~Contains(levels[j], n)) - 1

SetMax(S) == CHOOSE x \in S : \A y \in S : y <= x

\* the task without the outgoing ids that name no sub-step
Pruned(task) ==
  [task EXCEPT !.subSteps =
     [i \in 1..Len(task.subSteps) |->
        [task.subSteps[i] EXCEPT !.nextSubStepIds =
           SelectSeq(@, LAMBDA t : t \in NodeIds(task))]]]

\* C15: for an acyclic graph the layers are those of Kahn's algorithm over the
\* edges between present nodes: layer 0 is exactly the nodes without
\* predecessor, and a node is in layer k+1 exactly when all its predecessors
\* are in layers up to k and one is in layer k; ids of absent nodes affect no
\* layer; nodes 1..5 with edges 1-2, 2-3, 1-4, 4-3 give [{1,5}, {2,4}, {3}],
\* placed left to right in that order.
C15_KahnLayers ==
  AfterLayout =>
    LET levels == ComputeLevels(SubStepsOf(LaidOutFrom))
    IN /\ Acyclic(LaidOutFrom) =>
            \A n \in NodeIds(LaidOutFrom) :
              LET preds == PresentPreds(LaidOutFrom, n)
              IN LayerIndex(levels, n) =
                   IF preds = {} THEN 0
                   ELSE 1 + SetMax({LayerIndex(levels, m) : m \in preds})
       /\ levels = ComputeLevels(SubStepsOf(Pruned(LaidOutFrom)))
       /\ LaidOutFrom \in {ScenarioTask, ScenarioShuffled} =>
            [k \in 1..Len(levels) |-> Range(levels[k])]
              = <<{1, 5}, {2, 4}, {3}>>
       /\ (Acyclic(LaidOutFrom) /\ last.to = 800) =>
            \A n \in NodeIds(LaidOutFrom) :
              NodeOf(editableTask, n).position.x =
                layoutMargin + LayerIndex(levels, n) * (cardWidth + hSpacing)

\* the five-node scenario was laid out on a canvas that fits three columns
C15_Witness ==
  /\ AfterLayout
  /\ LaidOutFrom = ScenarioTask
  /\ last.to = 800
  /\ NodeOf(editableTask, 3).position.x > NodeOf(editableTask, 4).position.x

\* place of sub-step n in the stored sequence
SeqIndex(task, n) ==
  CHOOSE i \in 1..Len(SubStepsOf(task)) : SubStepsOf(task)[i].id = n

\* C16: within every layer produced by auto-layout (layer 0 and every later
\* layer) the nodes are stacked top to bottom in their original order in the
\* node sequence, whatever the order of ids inside the outgoing lists.
C16_LayerKeepsNodeOrder ==
  AfterLayout =>
    LET levels == ComputeLevels(SubStepsOf(LaidOutFrom))
    IN \A n, m \in NodeIds(LaidOutFrom) :
         (/\ LayerIndex(levels, n) = LayerIndex(levels, m)
          /\ SeqIndex(LaidOutFrom, n) < SeqIndex(LaidOutFrom, m))
           => NodeOf(editableTask, n).position.y
                < NodeOf(editableTask, m).position.y

\* nodes on a cycle of present edges, and the nodes reachable from one
OnCycle(task, n) ==
  n \in Descendants(task, {t \in NodeIds(task) : HasEdge(task, n, t)},
                    Cardinality(NodeIds(task)))

Unpeeled(task) ==
  {n \in NodeIds(task) :
     \E m \in NodeIds(task) :
       /\ OnCycle(task, m)
       /\ n \in Descendants(task, {m}, Cardinality(NodeIds(task)))}

\* ids of the sub-steps of S, in stored order
InStoredOrder(task, S) ==
  LET kept == SelectSeq(SubStepsOf(task), LAMBDA ss : ss.id \in S)
  IN [i \in 1..Len(kept) |-> kept[i].id]

\* C17: if the graph has a cycle, every node that the peeling did not consume
\* is placed in one final layer after all peeled layers, in original node
\* order, and no error is raised; for the edges 1 -> 2 and 2 -> 1 both nodes
\* are in that single layer.
C17_CycleTrailingLayer ==
  (AfterLayout /\ ~Acyclic(LaidOutFrom)) =>
    LET levels == ComputeLevels(SubStepsOf(LaidOutFrom))
        trailing == InStoredOrder(LaidOutFrom, Unpeeled(LaidOutFrom))
        top == NodeOf(editableTask, trailing[1]).position
    IN /\ levels[Len(levels)] = trailing
       /\ \A k \in 1..(Len(levels) - 1) :
            Range(levels[k]) \cap Unpeeled(LaidOutFrom) = {}
       /\ \A i \in 1..Len(trailing) :
            NodeOf(editableTask, trailing[i]).position =
              [x |-> top.x, y |-> top.y + (i - 1) * (cardHeight + vSpacing)]
       /\ \A n \in NodeIds(LaidOutFrom) \ Unpeeled(LaidOutFrom) :
            NodeOf(editableTask, n).position # top
       /\ LaidOutFrom = CycleTask =>
            /\ levels = <<(<<1, 2>>)>>
            /\ NodeOf(editableTask, 1).position.x
                 = NodeOf(editableTask, 2).position.x

\* a graph with a peeled layer in front of a cycle of two was laid out
C17_Witness ==
  /\ AfterLayout
  /\ Cardinality(Unpeeled(LaidOutFrom)) = 2
  /\ Cardinality(NodeIds(LaidOutFrom)) = 3
  /\ \E n \in NodeIds(LaidOutFrom) \ Unpeeled(LaidOutFrom) :
       \E m \in Unpeeled(LaidOutFrom) : HasEdge(LaidOutFrom, n, m)

\* the task with every card moved to the origin
Unplaced(task) ==
  [task EXCEPT !.subSteps =
     [i \in 1..Len(task.subSteps) |->
        [task.subSteps[i] EXCEPT !.position = Origin]]]

\* C18: auto-layout yields the same layers and coordinates for the same node
\* sequence, edges and width, independent of the nodes' current positions, so
\* applying it twice in a row gives the same positions as applying it once.
C18_LayoutIgnoresPositions ==
  AfterLayout =>
    /\ editableTask = AutoLayoutIn(Unplaced(LaidOutFrom), last.to)
    /\ ComputeLevels(SubStepsOf(editableTask))
         = ComputeLevels(SubStepsOf(LaidOutFrom))
    /\ Len(localHistory) >= 2
         => editableTask = localHistory[Len(localHistory)]

\* the layout ran twice in a row and the first run had moved a card
C18_Witness ==
  /\ AfterLayout
  /\ Len(localHistory) >= 2
  /\ localHistory[1] # localHistory[2]

\* position of the first card of column k after the layout, and the height of
\* the column
ColumnPos(levels, k) == NodeOf(editableTask, levels[k][1]).position
ColumnHeight(levels, k) == Len(levels[k]) * (cardHeight + vSpacing) - vSpacing

\* C19: a column other than the very first is placed at the running x cursor
\* exactly when cursor + column width (card width + horizontal spacing) does
\* not exceed the available width; otherwise x is reset to the margin and y
\* advances by the row's maximum column height plus twice the vertical
\* spacing, the row maximum starting afresh. The very first column is never
\* wrapped, however narrow the width.
C19_WrapRule ==
  AfterLayout =>
    LET levels == ComputeLevels(SubStepsOf(LaidOutFrom))
        columnWidth == cardWidth + hSpacing
    IN /\ ColumnPos(levels, 1) = [x |-> layoutMargin, y |-> layoutMargin]
       /\ \A k \in 1..(Len(levels) - 1) :
            LET cur == ColumnPos(levels, k)
                cursor == cur.x + columnWidth
                rowMax == SetMax({ColumnHeight(levels, j) :
                                    j \in {i \in 1..k :
                                             ColumnPos(levels, i).y = cur.y}})
            IN ColumnPos(levels, k + 1) =
                 IF cursor + columnWidth <= last.to
                 THEN [x |-> cursor, y |-> cur.y]
                 ELSE [x |-> layoutMargin,
                       y |-> cur.y + rowMax + 2 * vSpacing]

\* on a canvas that two columns fill exactly, the second column stays in the
\* first row and the third one wraps
C19_Witness ==
  /\ AfterLayout
  /\ last.to = 2 * (cardWidth + hSpacing) + layoutMargin
  /\ LET levels == ComputeLevels(SubStepsOf(LaidOutFrom))
     IN /\ Len(levels) = 3
        /\ ColumnPos(levels, 2).y = layoutMargin
        /\ ColumnPos(levels, 2).x > layoutMargin
        /\ ColumnPos(levels, 3).x = layoutMargin

\* the card rectangles of two positions share a point of their interiors
Overlap(p, q) ==
  /\ p.x < q.x + cardWidth /\ q.x < p.x + cardWidth
  /\ p.y < q.y + cardHeight /\ q.y < p.y + cardHeight

\* C20: after auto-layout, for every graph and width (also a width that fits
\* one column only, where layers wrap into rows below), no two distinct nodes'
\* card rectangles overlap: the nodes of a layer are stacked with the pitch
\* card height + vertical spacing, the columns of a row have disjoint x
\* ranges, and different rows have disjoint y ranges.
C20_NoOverlap ==
  AfterLayout =>
    LET levels == ComputeLevels(SubStepsOf(LaidOutFrom))
    IN /\ \A n, m \in NodeIds(editableTask) :
            n # m => ~Overlap(NodeOf(editableTask, n).position,
                              NodeOf(editableTask, m).position)
       /\ \A k \in 1..Len(levels) : \A i \in 1..Len(levels[k]) :
            NodeOf(editableTask, levels[k][i]).position =
              [x |-> ColumnPos(levels, k).x,
               y |-> ColumnPos(levels, k).y + (i - 1) * (cardHeight + vSpacing)]
       /\ \A j, k \in 1..Len(levels) :
            j < k =>
              IF ColumnPos(levels, j).y = ColumnPos(levels, k).y
              THEN ColumnPos(levels, j).x + cardWidth <= ColumnPos(levels, k).x
              ELSE ColumnPos(levels, j).y + ColumnHeight(levels, j)
                     <= ColumnPos(levels, k).y

\* on a canvas that fits one column, a layer of two cards is followed by a
\* layer in the row below
C20_Witness ==
  /\ AfterLayout
  /\ last.to < 2 * (cardWidth + hSpacing)
  /\ LET levels == ComputeLevels(SubStepsOf(LaidOutFrom))
     IN /\ Len(levels) >= 2
        /\ Len(levels[1]) >= 2
        /\ ColumnPos(levels, 2).y > layoutMargin

\* bounding box of the cards of the task, from the origin
BoundingBox(task) ==
  [w |-> SetMax({NodeOf(task, n).position.x + cardWidth : n \in NodeIds(task)}),
   h |-> SetMax({NodeOf(task, n).position.y + cardHeight : n \in NodeIds(task)})]

\* C21 as stated: the content-area size that auto-layout produces equals the
\* bounding box over all placed nodes, width = max (x + card width) and
\* height = max (y + card height).
C21_SizeIsBoundingBox ==
  AfterLayout => last.resize = BoundingBox(editableTask)

\* C21 amended: the content-area size that auto-layout produces is the
\* bounding box over all placed nodes enlarged by 20 px on each axis:
\* width = max (x + card width) + 20, height = max (y + card height) + 20.
C21_SizeIsPaddedBoundingBox ==
  AfterLayout =>
    last.resize = [w |-> BoundingBox(editableTask).w + canvasPadding,
                   h |-> BoundingBox(editableTask).h + canvasPadding]

\* after a wrap: the rightmost card is in an upper row, the lowest card is
\* further left
C21_Witness ==
  /\ AfterLayout
  /\ \E n, m \in NodeIds(editableTask) :
       /\ NodeOf(editableTask, n).position.x + cardWidth
            = BoundingBox(editableTask).w
       /\ NodeOf(editableTask, m).position.y + cardHeight
            = BoundingBox(editableTask).h
       /\ NodeOf(editableTask, n).position.y < NodeOf(editableTask, m).position.y
       /\ NodeOf(editableTask, n).position.x > NodeOf(editableTask, m).position.x

\* C22: auto-layout on a graph with zero nodes is a no-op: the task, the
\* content-area size, the undo stack and the redo stack are all unchanged.
C22_EmptyLayoutNoOp ==
  (last.op = "autoLayout" /\ SubStepsOf(last.pre.task) = <<>>) =>
    /\ editableTask = last.pre.task
    /\ localHistory = last.pre.undo
    /\ Len(localRedoHistory) = last.redoLen
    /\ last.resize = NoResize

\* the layout button was pressed on an empty canvas with a state to redo
C22_Witness ==
  /\ last.op = "autoLayout"
  /\ SubStepsOf(last.pre.task) = <<>>
  /\ localRedoHistory # <<>>

\* the places (layer, index) at which n occurs in the layers
SlotsOf(levels, n) ==
  {s \in UNION {{<<k, i>> : i \in 1..Len(levels[k])} : k \in 1..Len(levels)} :
     levels[s[1]][s[2]] = n}

\* C23: auto-layout on a non-empty graph assigns every node to exactly one
\* layer and gives every node a position, for acyclic and cyclic graphs alike:
\* no node is skipped and none is placed in two layers.
C23_EveryNodeOneLayer ==
  AfterLayout =>
    LET levels == ComputeLevels(SubStepsOf(LaidOutFrom))
    IN /\ \A n \in NodeIds(LaidOutFrom) : Cardinality(SlotsOf(levels, n)) = 1
       /\ \A n \in NodeIds(editableTask) :
            LET slot == CHOOSE s \in SlotsOf(levels, n) : TRUE
                first == NodeOf(editableTask, levels[slot[1]][1]).position
            IN /\ NodeOf(editableTask, n).position.x = first.x
               /\ NodeOf(editableTask, n).position.y =
                    first.y + (slot[2] - 1) * (cardHeight + vSpacing)
               /\ (first.x - layoutMargin) % (cardWidth + hSpacing) = 0
       /\ \A n, m \in NodeIds(editableTask) :
            n # m => NodeOf(editableTask, n).position
                       # NodeOf(editableTask, m).position

\* a graph with a peeled node in front of a cycle was laid out
C23_Witness ==
  /\ AfterLayout
  /\ ~Acyclic(LaidOutFrom)
  /\ Len(ComputeLevels(SubStepsOf(LaidOutFrom))) >= 2

\* C24: after a drop that moved a card, the card's position is (pointer - drag
\* start offset) clamped on each axis to 0 .. container - card, with the
\* container as measured at the drop, so the card lies inside the content area
C24_DropClamped ==
  (last.op = "drop" /\ last.kind = "commit") =>
    LET d == last.drop
        p == NodeOf(editableTask, last.id).position
        rawX == d.pointer.x - d.offset.x
        rawY == d.pointer.y - d.offset.y
        maxX == d.container.w - d.card.w
        maxY == d.container.h - d.card.h
    IN /\ p.x = (IF rawX < 0 THEN 0 ELSE IF rawX > maxX THEN maxX ELSE rawX)
       /\ p.y = (IF rawY < 0 THEN 0 ELSE IF rawY > maxY THEN maxY ELSE rawY)
       /\ 0 <= p.x /\ p.x + d.card.w <= d.container.w
       /\ 0 <= p.y /\ p.y + d.card.h <= d.container.h

\* a second drop, beyond the right edge and above the top of the canvas, of a
\* card that ends right of the left edge
C24_Witness ==
  /\ last.op = "drop" /\ last.kind = "commit"
  /\ last.drop.pointer.x - last.drop.offset.x >
       last.drop.container.w - last.drop.card.w
  /\ last.drop.pointer.y - last.drop.offset.y < 0
  /\ Len(localHistory) = 2
  /\ NodeOf(editableTask, last.id).position.x > 0
\* the number of edges of the task
EdgeCount(task) ==
  SumSeq([i \in 1..Len(SubStepsOf(task)) |->
            Len(SubStepsOf(task)[i].nextSubStepIds)])

\* the last command was a release on card B of a draft begun from Idle on card
\* A, moved exactly as often as given, in a task without the edge A -> B
ReleasedAfterMoves(moves) ==
  /\ last.op = "release" /\ last.kind = "commit"
  /\ last.session.fromIdle
  /\ last.session.moves = moves
  /\ last.id # last.to
  /\ last.pre.task = last.session.task
  /\ ~HasEdge(last.session.task, last.id, last.to)

\* C25: beginDrag(A) from Idle, two pointer moves and a release on another
\* existing card B, in a task without the edge A -> B, end in Idle with exactly
\* the edge A -> B added and nothing else of the graph changed
C25_DraftToEdge ==
  ReleasedAfterMoves(2) =>
    /\ connectingState = Idle
    /\ editableTask = WithEdgeAppended(last.session.task, last.id, last.to)
    /\ EdgeCount(editableTask) = EdgeCount(last.session.task) + 1
    /\ HasEdge(editableTask, last.id, last.to)
    /\ NodeIds(editableTask) = NodeIds(last.session.task)

C25_Witness ==
  /\ ReleasedAfterMoves(2)
  /\ mousePos # last.session.press
\* a history entry is a task and nothing else: a list of sub-steps, each with
\* its id, text, status, position and outgoing ids
PlainTask(task) ==
  /\ DOMAIN task = {"subSteps"}
  /\ \A i \in 1..Len(task.subSteps) :
       DOMAIN task.subSteps[i] =
         {"id", "text", "status", "position", "nextSubStepIds"}

EphemeralOps == {"beginDrag", "movePointer", "cancel", "dragStart"}

\* C26: beginDrag, movePointer, cancel and drag-start leave the task, the undo
\* stack and the redo stack unchanged, and every entry of either stack is a
\* task alone, without the connection draft or the drag offset
C26_EphemeralOutsideHistory ==
  /\ last.op \in EphemeralOps => Snapshot = last.pre
  /\ \A i \in 1..Len(localHistory) : PlainTask(localHistory[i])
  /\ \A i \in 1..Len(localRedoHistory) : PlainTask(localRedoHistory[i])

\* the pointer moved during a draft while both stacks held entries
C26_Witness ==
  /\ last.op = "movePointer"
  /\ connectingState.active
  /\ mousePos # Origin
  /\ Len(localHistory) > 0
  /\ Len(localRedoHistory) > 0
\* the outgoing ids of a node of the task, none when the node is absent
OutgoingOf(task, id) ==
  IF id \in NodeIds(task) THEN NodeOf(task, id).nextSubStepIds ELSE <<>>

\* C27: there is one draft at most; a beginDrag(B, p) while Drafting(A) leaves
\* the task and the stacks as they were, so no edge out of A, and makes the
\* state Drafting(B, p); a release that follows draws its edge from B alone
C27_SecondBeginReplaces ==
  /\ (last.op = "beginDrag" /\ ~last.session.fromIdle) =>
       /\ connectingState = Drafting(last.id, last.session.press)
       /\ Snapshot = last.pre
       /\ OutgoingOf(editableTask, last.session.prior)
            = OutgoingOf(last.pre.task, last.session.prior)
  /\ (last.op = "release" /\ last.kind = "commit"
        /\ last.session.fromId # NoId) =>
       /\ last.id = last.session.fromId
       /\ \A id \in NodeIds(editableTask) \ {last.id} :
            OutgoingOf(editableTask, id) = OutgoingOf(last.pre.task, id)

\* a draft from one card was replaced by a draft from another card, and the
\* release that followed added an edge to a third card
C27_Witness ==
  /\ last.op = "release" /\ last.kind = "commit"
  /\ last.session.fromId # NoId
  /\ ~last.session.fromIdle
  /\ last.session.prior \notin {last.id, last.to}
  /\ ~HasEdge(last.pre.task, last.id, last.to)
\* C28: after beginDrag(nodeId, pointer) from Idle the draft's source is nodeId
\* and, until the first movePointer, the live pointer coordinate that the
\* preview connector is drawn to is the press coordinate
C28_DraftStartsAtPress ==
  (last.op = "beginDrag" /\ last.session.fromIdle) =>
    /\ connectingState.active
    /\ connectingState.fromId = last.id
    /\ connectingState.fromPos = last.session.press
    /\ mousePos = last.session.press
\* C29: from every reachable state, also of a task without extended details or
\* without a sub-step list, every command completes without raising an error
C29_NoCommandRaises == last.kind # "raised"
\* C30: addNode always succeeds and appends exactly one node at the end: its
\* id differs from every existing id, its status is NotStarted, it has no
\* outgoing ids, and it sits at grid slot i = number of nodes before the add,
\* x = 10 + (i mod 4) * 210, y = 10 + floor(i / 4) * 90; the existing nodes
\* are unchanged
C30_AddAppendsOne ==
  last.op = "addNode" =>
    LET before == SubStepsOf(last.pre.task)
        after == SubStepsOf(editableTask)
        i == Len(before)
    IN /\ last.kind = "commit"
       /\ Len(after) = i + 1
       /\ SubSeq(after, 1, i) = before
       /\ after[i + 1].id \notin NodeIds(last.pre.task)
       /\ after[i + 1].id # NoId
       /\ after[i + 1].status = NOT_STARTED
       /\ after[i + 1].nextSubStepIds = <<>>
       /\ after[i + 1].position = [x |-> 10 + (i % 4) * 210,
                                   y |-> 10 + (i \div 4) * 90]

\* a node was added as the sixth, in the second row and second column
C30_Witness ==
  /\ last.op = "addNode"
  /\ Len(SubStepsOf(last.pre.task)) = 5
  /\ SubStepsOf(editableTask)[6].position = [x |-> 220, y |-> 100]
\* C31: accepting k proposals appends exactly k new nodes after the existing
\* ones, in proposal order, each without outgoing ids and at the default
\* position of the next free grid slot, as one undo step; the existing nodes
\* keep their ids, outgoing ids and positions
C31_AcceptAppendsK ==
  last.op = "acceptProposals" =>
    LET before == SubStepsOf(last.pre.task)
        after == SubStepsOf(editableTask)
        i == Len(before)
        k == last.to
    IN /\ last.kind = "commit"
       /\ Len(after) = i + k
       /\ SubSeq(after, 1, i) = before
       /\ \A j \in 1..k :
            /\ after[i + j].text = ProposalTitles[j]
            /\ after[i + j].nextSubStepIds = <<>>
            /\ after[i + j].position =
                 [x |-> 10 + ((i + j - 1) % 4) * 210,
                  y |-> 10 + ((i + j - 1) \div 4) * 90]
            /\ after[i + j].id \notin NodeIds(last.pre.task)
       /\ Cardinality(NodeIds(editableTask)) = i + k
       /\ localHistory = Append(last.pre.undo, last.pre.task)

\* three proposals were accepted on a task of three nodes, so that the created
\* nodes end the first grid row and begin the second
C31_Witness ==
  /\ last.op = "acceptProposals"
  /\ last.to = 3
  /\ Len(SubStepsOf(last.pre.task)) = 3
  /\ SubStepsOf(editableTask)[5].position = [x |-> 10, y |-> 100]
\* the ids of the task's nodes in stored order
IdOrder(task) ==
  [i \in 1..Len(SubStepsOf(task)) |-> SubStepsOf(task)[i].id]

\* C32: updateNode(id, partialFields) on an existing node changes exactly the
\* given fields of that node; its other fields, every other node and the
\* order of the nodes are unchanged
C32_UpdateFrame ==
  (last.op = "updateNode" /\ last.kind = "commit") =>
    /\ last.id \in NodeIds(last.pre.task)
    /\ IdOrder(editableTask) = IdOrder(last.pre.task)
    /\ \A id \in NodeIds(editableTask) \ {last.id} :
         NodeOf(editableTask, id) = NodeOf(last.pre.task, id)
    /\ \/ NodeOf(editableTask, last.id) =
            [NodeOf(last.pre.task, last.id) EXCEPT !.text = "edited"]
       \/ NodeOf(editableTask, last.id) =
            [NodeOf(last.pre.task, last.id) EXCEPT !.status = COMPLETED]

\* the text of a completed node with outgoing ids was edited
C32_Witness ==
  /\ last.op = "updateNode" /\ last.kind = "commit"
  /\ NodeOf(last.pre.task, last.id).status = COMPLETED
  /\ NodeOf(last.pre.task, last.id).text = "loaded"
  /\ NodeOf(editableTask, last.id).text = "edited"
  /\ NodeOf(editableTask, last.id).status = COMPLETED
  /\ NodeOf(editableTask, last.id).nextSubStepIds # <<>>
\* the nodes present before and after the last command have the positions they
\* had, except the nodes of the given set
PositionsKeptBut(moved) ==
  \A id \in (NodeIds(editableTask) \cap NodeIds(last.pre.task)) \ moved :
    NodeOf(editableTask, id).position = NodeOf(last.pre.task, id).position

PositionKeepingOps ==
  {"addNode", "removeNode", "beginDrag", "movePointer", "release", "cancel",
   "removeEdge"}

\* C33: addNode, removeNode of another node, beginDrag, movePointer, release,
\* cancel and removeEdge leave the position of every remaining node unchanged;
\* a drop moves no node but the dropped one; a pointer move runs no auto-layout
C33_PositionsMoveOnlyByCommand ==
  /\ last.op \in PositionKeepingOps => PositionsKeptBut({})
  /\ last.op = "drop" => PositionsKeptBut({last.id})
  /\ last.op = "movePointer" =>
       /\ editableTask = last.pre.task
       /\ last.resize = NoResize

\* the pointer moved during a draft over a task of three cards, one of which
\* had been moved off the grid row the task was loaded with
C33_Witness ==
  /\ last.op = "movePointer"
  /\ Len(SubStepsOf(editableTask)) = 3
  /\ \E id \in NodeIds(editableTask) :
       NodeOf(editableTask, id).position.y # layoutMargin
\* C34: in every reachable state, also after undo and redo, the selected node
\* id is none or the id of a node of the current task
C34_SelectionPresent ==
  selectedSubStepId = NoId \/ selectedSubStepId \in NodeIds(editableTask)
\* the last command was a pointer-up on a card while a draft was open
ReleasedDraft == last.op = "release" /\ last.id # NoId

\* C35: from Drafting every pointer-up inside the canvas leads to Idle in one
\* step: a release that adds an edge, a self-release, a release whose source
\* node is gone, and a cancel; the pointer-up on a card is one release (one
\* commit at most) and no cancel
C35_PointerUpEndsDraft ==
  /\ (ReleasedDraft \/ last.op = "cancel") => connectingState = Idle
  /\ ReleasedDraft =>
       /\ last.id = last.to => (last.kind = "none" /\ Snapshot = last.pre)
       /\ last.id # last.to =>
            /\ last.kind = "commit"
            /\ localHistory = Append(last.pre.undo, last.pre.task)

\* a draft whose source node had been taken back by undo was released
C35_Witness ==
  /\ ReleasedDraft
  /\ last.id \notin NodeIds(last.pre.task)
  /\ last.to \in NodeIds(editableTask)
  /\ connectingState = Idle
\* C36: a report deck that arrives after further edits changes only the
\* report-deck field of the task current at that time and is one undo step;
\* the nodes, edges and positions committed while the request was in flight
\* are kept, not replaced by those of the task the request started with
C36_DeckKeepsEdits ==
  last.op = "deckArrived" =>
    /\ HasReportDeck(editableTask)
    /\ editableTask.reportDeck \in Decks
    /\ DOMAIN editableTask = DOMAIN last.pre.task \cup {"reportDeck"}
    /\ \A f \in DOMAIN last.pre.task \ {"reportDeck"} :
         editableTask[f] = last.pre.task[f]
    /\ localHistory = Append(last.pre.undo, last.pre.task)
    /\ localRedoHistory = <<>>
    /\ ~deckRequest.loading

\* the deck arrived after a node was added, an edge drawn or a card dropped
\* while the request was in flight
C36_Witness ==
  /\ last.op = "deckArrived"
  /\ last.request.loading
  /\ SubStepsOf(last.request.task) # SubStepsOf(last.pre.task)
  /\ Len(SubStepsOf(last.request.task)) = Len(SubStepsOf(last.pre.task))
  /\ SubStepsOf(editableTask) = SubStepsOf(last.pre.task)
\* C37: when a different task is loaded the current task becomes that task and
\* both stacks become empty, so that from then on every state undo or redo can
\* return to is a state of the loaded task
C37_LoadResetsHistory ==
  /\ last.op = "load" =>
       /\ editableTask \in LoadableTasks
       /\ editableTask.id # last.pre.task.id
       /\ localHistory = <<>>
       /\ localRedoHistory = <<>>
  /\ \A i \in 1..Len(localHistory) : localHistory[i].id = editableTask.id
  /\ \A i \in 1..Len(localRedoHistory) :
       localRedoHistory[i].id = editableTask.id

\* a task was loaded over an edited task that had entries on both stacks
C37_Witness ==
  /\ last.op = "load"
  /\ last.pre.undo # <<>>
  /\ last.pre.redo # <<>>
  /\ last.pre.task \notin LoadableTasks
\* C38: auto-layout changes nothing but positions (and the content-area
\* size): the node sequence and its order, and every node's id, label, status
\* and outgoing ids are the same before and after
C38_LayoutFrame ==
  AfterLayout =>
    LET before == SubStepsOf(last.pre.task)
        after == SubStepsOf(editableTask)
    IN /\ Len(after) = Len(before)
       /\ \A i \in 1..Len(before) :
            /\ after[i].id = before[i].id
            /\ after[i].text = before[i].text
            /\ after[i].status = before[i].status
            /\ after[i].nextSubStepIds = before[i].nextSubStepIds
            /\ DOMAIN after[i] = DOMAIN before[i]
       /\ DOMAIN editableTask = DOMAIN last.pre.task

\* a task was laid out in which a completed node with outgoing ids moved
C38_Witness ==
  /\ AfterLayout
  /\ \E i \in 1..Len(SubStepsOf(editableTask)) :
       LET ss == SubStepsOf(editableTask)[i]
       IN /\ ss.status = COMPLETED
          /\ ss.nextSubStepIds # <<>>
          /\ ss.position # SubStepsOf(last.pre.task)[i].position
\* C39: under any interleaving of addNode and removeNode, no two nodes made by
\* addNode and never moved have the same default position
C39_DefaultSlotsDistinct ==
  \A i \in 1..Len(SubStepsOf(editableTask)) :
    \A j \in (i + 1)..Len(SubStepsOf(editableTask)) :
      SubStepsOf(editableTask)[i].position
        # SubStepsOf(editableTask)[j].position
\* the number of completed items of a checklist
CompletedCount(items) ==
  Cardinality({k \in 1..Len(items) : items[k].completed})

\* C40: after toggling an action item of a node, the node's status is
\* Completed if it has an item and all are completed, InProgress if some but
\* not all are, NotStarted otherwise; only the named item is flipped and no
\* other node changes
C40_ToggleSetsStatus ==
  (last.op = "toggleItem" /\ last.kind = "commit") =>
    LET was == NodeOf(last.pre.task, last.id)
        now == NodeOf(editableTask, last.id)
        n == Len(now.actionItems)
        done == CompletedCount(now.actionItems)
    IN /\ n = Len(was.actionItems)
       /\ \A k \in 1..n :
            /\ now.actionItems[k].id = was.actionItems[k].id
            /\ now.actionItems[k].completed =
                 IF was.actionItems[k].id = last.to
                 THEN ~was.actionItems[k].completed
                 ELSE was.actionItems[k].completed
       /\ now.status = IF n > 0 /\ done = n THEN COMPLETED
                       ELSE IF done > 0 THEN IN_PROGRESS
                       ELSE NOT_STARTED
       /\ now = [was EXCEPT !.actionItems = now.actionItems,
                            !.status = now.status]
       /\ IdOrder(editableTask) = IdOrder(last.pre.task)
       /\ \A id \in NodeIds(editableTask) \ {last.id} :
            NodeOf(editableTask, id) = NodeOf(last.pre.task, id)

\* an item of a node set to Completed by hand was ticked while the other item
\* stayed open, and the node went to InProgress
C40_Witness ==
  /\ last.op = "toggleItem" /\ last.kind = "commit"
  /\ NodeOf(last.pre.task, last.id).status = COMPLETED
  /\ CompletedCount(NodeOf(last.pre.task, last.id).actionItems) = 0
  /\ NodeOf(editableTask, last.id).status = IN_PROGRESS
  /\ Len(NodeOf(editableTask, last.id).actionItems) = 2
====
